---- MODULE Spec2Model ----
(***************************************************************************)
(* FSDPParamGroup (torch/distributed/_composable/fsdp/_fsdp_param_group.py) *)
(* as a state machine.  The host thread is single-threaded: every handler  *)
(* of a group runs to completion, so one action is one whole handler call. *)
(* A handler is a function from the program state (World) to the program   *)
(* state; the commands it enqueues on the accelerator (collectives, event  *)
(* records, stream waits) and the calls it makes on its parameters and on  *)
(* the AllGatherStateHolder are collected, in program order, in the `log`  *)
(* field of the world it returns.                                          *)
(*                                                                         *)
(* Spec runs the training-step handlers of constructed groups.             *)
(* SpecFactors runs _init_grad_divide_factors for every mesh, and          *)
(* SpecConstruct the first statements of __init__ (_get_param_module_infos,*)
(* the FSDPParams, _init_mp_dtypes) for every argument list.               *)
(* SpecStreams runs one training step on the host and then lets the        *)
(* accelerator execute the enqueued commands in any order that keeps each  *)
(* stream first-in first-out and honours the event waits.                  *)
(* SpecHook follows one forward and backward of a group through            *)
(* _register_post_backward_hook and RegisterPostBackwardHook, with the     *)
(* args and kwargs of the forward as trees of tensors.                     *)
(*                                                                         *)
(* SpecFail is Spec with calls in which a collective of the process       *)
(* group fails.                                                            *)
(*                                                                         *)
(* An exception that escapes a handler sets `raised`; the program stops    *)
(* there, no handler is called afterwards, and a property of what a        *)
(* handler does is stated for the states in which none has escaped.        *)
(***************************************************************************)
EXTENDS Integers, Sequences, FiniteSets, TLC

\* ------------------------------------------------------------------ bounds
\* parameters of the first group
NumParams == 2
\* hook nodes of one group that may wait in the autograd graph at once
MaxHooks == 1

\* sizes of the shard and of the replicate dimension of a mesh
MaxShardSize == 8
MaxReplicateSize == 8
\* fractional bits of the fixed-point numbers that stand for Python floats
FracBits == 10
\* submodules that module.named_modules(remove_duplicate=False) yields
MaxVisits == 3
\* length of the params list given to the constructor
MaxListLen == 2
\* positional arguments of a module's forward, elements of a tuple nested in
\* them, and keyword arguments
MaxArgs == 2
MaxNested == 1
MaxKwargs == 1

\* two groups: the one that published the holder's entry and the next one
Groups == {1, 2}
\* the parameters of group g: the first group holds NumParams parameters,
\* every other group a single one
Params(g) == IF g = 1 THEN 1..NumParams ELSE {1}
Outputs == {"out_a", "out_b"}

\* The models that are run.  "one_group": the module is wrapped as a single
\* group (the second group is never used) and is trained.  "two_groups": the
\* module tree is wrapped as two groups that share the holder; their
\* parameters are frozen, so autograd accumulates no gradient for them.
Setups == {"one_group", "two_groups"}

\* the accelerator streams: the stream that was current when the groups were
\* constructed, and another stream the caller may make current
CudaStreams == {"cuda_stream_0", "cuda_stream_1"}
\* torch.cuda.current_stream() as read by __init__ (line 47)
ConstructionStream == "cuda_stream_0"

\* the stream attributes of a group (lines 48-51)
StreamNames ==
    {"default_stream", "all_gather_copy_in_stream", "all_gather_stream",
     "reduce_scatter_stream"}
\* the stream a caller creates for an attribute when it configures that
\* attribute separately
DedicatedStream(name) ==
    CASE name = "all_gather_copy_in_stream" -> "cuda_stream_2"
      [] name = "all_gather_stream" -> "cuda_stream_3"
      [] name = "reduce_scatter_stream" -> "cuda_stream_4"
      [] OTHER -> ConstructionStream
\* the values a caller may give the four attributes: each of the three
\* communication streams is its own stream or the default stream
StreamConfigs ==
    {cfg \in [StreamNames -> {ConstructionStream} \cup
                                {DedicatedStream(n) : n \in StreamNames}] :
         \A n \in StreamNames : cfg[n] \in {ConstructionStream, DedicatedStream(n)}}

\* the meshes a group is constructed with: FSDPMeshInfo has a shard
\* dimension, HSDPMeshInfo a shard and a replicate dimension
MeshInfos ==
    [kind : {"FSDPMeshInfo"}, shard_mesh_size : 1..MaxShardSize,
     replicate_mesh_size : {1}]
    \cup [kind : {"HSDPMeshInfo"}, shard_mesh_size : 1..MaxShardSize,
          replicate_mesh_size : 1..MaxReplicateSize]
\* the mesh of the groups whose training steps are run: two workers that
\* shard the parameters
TrainingMesh ==
    [kind |-> "FSDPMeshInfo", shard_mesh_size |-> 2, replicate_mesh_size |-> 1]

\* the arguments of a constructor call.  The nn.Parameter objects, their
\* dtypes, and the module tree: the root module 1 and its submodule 2, which
\* is yielded once per attribute it is bound to.  A submodule has up to two
\* direct parameters, named in this order:
Parameters == {1, 2}
Dtypes == {"float32", "bfloat16"}
ParamNames == <<"weight", "bias">>
RootModule == 1
SubModule == 2

\* the sequences over S of length lo..hi
SeqsOf(S, lo, hi) == UNION {[1..n -> S] : n \in lo..hi}

\* module trees: the submodules in the order of named_modules, and the direct
\* parameters of each in the order of _named_parameters_with_duplicates
ModuleTrees ==
    [named_modules :
         {<<RootModule>> \o t : t \in SeqsOf({SubModule}, 0, MaxVisits - 1)},
     named_parameters :
         [{RootModule, SubModule} -> SeqsOf(Parameters, 0, Len(ParamNames))]]

ConstructorArgs ==
    [params : SeqsOf(Parameters, 0, MaxListLen),
     module : ModuleTrees,
     dtype : [Parameters -> Dtypes]]

\* ------------------------------------------------------------- enumerations
TrainingState == {"IDLE", "FORWARD", "PRE_BACKWARD", "POST_BACKWARD"}
ShardedState == {"SHARDED", "UNSHARDED"}

VARIABLES
    training_state,     \* [g] self._training_state
    sharded_state,      \* [g] self._sharded_state
    param_state,        \* [g][p] fsdp_param.sharded_state
    all_gather_result,  \* [g] self._all_gather_result: <<>> (None) or <<AllGatherResult>>
    rs_event,           \* [g] self._reduce_scatter_view_out_event: <<>> (None) or <<event>>
    grad,               \* [g][p] fsdp_param.unsharded_param.grad is not None
    hooks,              \* [g] RegisterPostBackwardHook nodes of g waiting in the autograd graph
    all_gather_state,   \* self.all_gather_state: the entries held by the AllGatherStateHolder,
                        \* which is one object shared by the groups of a module tree
    launched,           \* [g] history: the all-gathers launched for g since its
                        \* parameters were last resharded
    raised,             \* an exception has escaped a handler (the step is terminated)
    current_stream,     \* torch.cuda.current_stream(): the stream current on the host thread
    streams,            \* [name] the stream object held by the stream attribute `name`
    program,            \* the commands the host has enqueued on the accelerator for
                        \* a training step, in the order of their enqueueing
    done,               \* the positions of `program` the accelerator has executed
    hook_call,          \* <<>>, or <<c>> for a forward of a module whose arguments
                        \* are followed through the hook: its args and kwargs, what
                        \* pre_forward returned, the ctx of the hook node, and the
                        \* gradients given to and returned by the node's backward
    mesh_info,          \* self.mesh_info
    construction,       \* <<>>, or <<c>> for a call of __init__ in progress: its
                        \* arguments, its position pc, and what it has computed
    grad_divide_factors, \* <<>> before _init_grad_divide_factors has run, then
                        \* <<[pre |-> self._grad_predivide_factor,
                        \*    post |-> self._grad_postdivide_factor]>>
    setup               \* the model that was wrapped: see Setups

vars == <<training_state, sharded_state, param_state,
          all_gather_result, rs_event, grad, hooks, all_gather_state,
          launched, raised, current_stream, streams, program, done, hook_call,
          mesh_info, grad_divide_factors, construction, setup>>

\* --------------------------------------------------------------- the world
\* The program state as one record, so that a handler is a function from
\* state to state and a handler that calls another composes them.
World ==
    [training_state |-> training_state, sharded_state |-> sharded_state,
     param_state |-> param_state,
     all_gather_result |-> all_gather_result, rs_event |-> rs_event,
     grad |-> grad, hooks |-> hooks, all_gather_state |-> all_gather_state,
     raised |-> raised, current_stream |-> current_stream,
     streams |-> streams,
     mesh_info |-> mesh_info, grad_divide_factors |-> grad_divide_factors,
     collectives_fail |-> FALSE, log |-> <<>>]

\* the world in which a handler is called: `fails` tells whether a
\* collective that the handler calls on the process group raises
WorldWhere(fails) == [World EXCEPT !.collectives_fail = fails]

\* a call of a collective primitive raises (a failure of the process group)
collective_raises(w) == w.collectives_fail

\* one effect of a handler: a command enqueued on a stream, or a call on a
\* parameter or on the holder.  `og` is the group whose all-gather result or
\* event is acted on, `flag` the async_op of an all-gather, `id` a parameter,
\* `ps` and `gs` the parameters and gradients given to a reduce-scatter,
\* `group` its process group, `pre_factor` and `post_factor` its two scales.
\* `stream` names the stream of the effect (for an all-gather `stream` is
\* the copy-in stream and `stream2` the all-gather stream; for an event
\* `stream2` is the kind of the event), and `on` and `on2` are the stream
\* objects those names denoted when the effect was issued.
Eff(kind, g) ==
    [kind |-> kind, g |-> g, stream |-> "", stream2 |-> "", og |-> 0, id |-> 0,
     flag |-> FALSE, ps |-> <<>>, gs |-> <<>>,
     group |-> "", pre_factor |-> 0, post_factor |-> 0, on |-> "", on2 |-> ""]

\* a constructor that creates a stream of its own for each communication
\* stream
StreamAttr_dedicated(name) == DedicatedStream(name)

\* the stream object held by a stream attribute of a group: __init__ sets
\* default_stream, all_gather_copy_in_stream, all_gather_stream and
\* reduce_scatter_stream to the stream it read as current (lines 47-51)
StreamAttr(name) == ConstructionStream

\* the stream object an effect's stream denotes in world w: "current_stream"
\* is torch.cuda.current_stream() at the call, any other name an attribute
StreamObject(w, name) ==
    IF name = "current_stream" THEN w.current_stream ELSE w.streams[name]

\* the effect e with the stream objects its stream names denote in world w
Resolved(w, e) ==
    [e EXCEPT !.on = IF e.stream = "" THEN "" ELSE StreamObject(w, e.stream),
              !.on2 = IF e.kind = "all_gather"
                      THEN StreamObject(w, e.stream2) ELSE ""]

Emit(w, e) == [w EXCEPT !.log = Append(@, Resolved(w, e))]

\* self.fsdp_params of group g, in group order
fsdp_params(g) == [i \in 1..Cardinality(Params(g)) |-> i]

\* ------------------------------------------------------------- FSDPParam
\* FSDPParam.to_sharded: the parameter is registered in its sharded form
to_sharded(w, g, p) ==
    Emit([w EXCEPT !.param_state[g][p] = "SHARDED"],
         [Eff("to_sharded", g) EXCEPT !.id = p])

\* FSDPParam.to_unsharded: the unsharded view is registered
to_unsharded(w, g, p) ==
    Emit([w EXCEPT !.param_state[g][p] = "UNSHARDED"],
         [Eff("to_unsharded", g) EXCEPT !.id = p])

\* FSDPParam.init_unsharded_param: no-op after the first call
init_unsharded_param(w, g, p) ==
    Emit(w, [Eff("init_unsharded_param", g) EXCEPT !.id = p])

\* ------------------------------------------------------ AllGatherStateHolder
\* AllGatherStateHolder.put: rejects a state when one is already held
holder_put(w, g, state) ==
    IF w.all_gather_state # <<>>
    THEN [w EXCEPT !.raised = TRUE]
    ELSE Emit([w EXCEPT !.all_gather_state = <<state>>],
              [Eff("holder_put", g) EXCEPT !.og = state.all_gather_result.g])

\* AllGatherStateHolder.pop: the holder after the pop (what was popped is
\* w.all_gather_state before it)
holder_pop(w, g) ==
    Emit([w EXCEPT !.all_gather_state = <<>>],
         IF w.all_gather_state = <<>>
         THEN Eff("holder_pop", g)
         ELSE [Eff("holder_pop", g) EXCEPT
                   !.og = w.all_gather_state[1].all_gather_result.g])

\* ------------------------------------------------------------------ floats
\* A Python float is modelled as a fixed-point number: the integer x stands
\* for x / Scale.  Every multiple of 1 / Scale in the range used is a float.
Scale == 2 ^ FracBits

\* n / d for n >= 0 and d > 0, rounded to the nearest integer
RoundDiv(n, d) == (2 * n + d) \div (2 * d)

\* float(n) of an int n
Float(n) == n * Scale
\* a / b and a * b of two floats, rounded to a representable number
FloatDiv(a, b) == RoundDiv(a * Scale, b)
FloatMul(a, b) == RoundDiv(a * b, Scale)

\* ---------------------------------------------------------------- MeshInfo
\* the number of workers of a process group of the mesh
process_group_size(mesh, group) ==
    IF group = "shard_process_group" THEN mesh.shard_mesh_size
    ELSE mesh.replicate_mesh_size

\* ---------------------------------------------------------- FSDPParamGroup
\* lines 80-83
data_parallel_world_size(mesh) ==
    IF mesh.kind = "HSDPMeshInfo"
    THEN 1 * mesh.shard_mesh_size * mesh.replicate_mesh_size
    ELSE 1 * mesh.shard_mesh_size

RECURSIVE GradDivideLoop_geq(_, _)
\* the loop with >= for > in its second test
GradDivideLoop_geq(W, factor) ==
    IF W % factor = 0 /\ FloatDiv(Float(W), Float(factor)) >= Float(factor)
    THEN GradDivideLoop_geq(W, factor * 2)
    ELSE factor

RECURSIVE GradDivideLoop(_, _)
\* lines 85-89: the while loop, entered with the value `factor`
GradDivideLoop(W, factor) ==
    IF W % factor = 0 /\ FloatDiv(Float(W), Float(factor)) > Float(factor)
    THEN GradDivideLoop(W, factor * 2)
    ELSE factor

\* the post factor computed with the integer division //
_init_grad_divide_factors_floor(mesh) ==
    LET W == data_parallel_world_size(mesh)
        factor == GradDivideLoop(W, 1)
    IN  [pre |-> Float(factor), post |-> Float(W \div factor)]

\* the factors it stores
_init_grad_divide_factors(mesh) ==
    LET W == data_parallel_world_size(mesh)
        factor == GradDivideLoop(W, 1)
        _grad_predivide_factor == Float(factor)
    IN  [pre |-> _grad_predivide_factor,
         post |-> FloatDiv(Float(W), _grad_predivide_factor)]

_all_gather_process_group(w, g) == "shard_process_group"

_reduce_scatter_process_group(w, g) == "shard_process_group"

\* the dedicated streams are used in FORWARD alone
_use_all_gather_stream_forward_only(w, g) ==
    w.training_state[g] = "FORWARD"

_use_all_gather_stream(w, g) ==
    w.training_state[g] \in {"FORWARD", "PRE_BACKWARD"}

_all_gather_copy_in_stream_for_unshard(w, g) ==
    IF _use_all_gather_stream(w, g) THEN "all_gather_copy_in_stream" ELSE "default_stream"

_all_gather_stream_for_unshard(w, g) ==
    IF _use_all_gather_stream(w, g) THEN "all_gather_stream" ELSE "default_stream"

\* foreach_all_gather: the AllGatherResult it returns
foreach_all_gather(w, g, async_op, copy_in_stream, all_gather_stream) ==
    [g |-> g]

\* an all-gather launch that calls the primitive again when it raised
LaunchAllGather_retry(w, g, async_op) ==
    LET r == foreach_all_gather(w, g, async_op,
                 _all_gather_copy_in_stream_for_unshard(w, g),
                 _all_gather_stream_for_unshard(w, g))
        e == [Eff("all_gather", g) EXCEPT
                  !.og = g, !.flag = async_op,
                  !.stream = _all_gather_copy_in_stream_for_unshard(w, g),
                  !.stream2 = _all_gather_stream_for_unshard(w, g)]
    IN  IF collective_raises(w)
        THEN Emit(Emit([w EXCEPT !.all_gather_result[g] = <<r>>],
                       [e EXCEPT !.kind = "all_gather_raised"]), e)
        ELSE Emit([w EXCEPT !.all_gather_result[g] = <<r>>], e)

\* the all-gather launch of unshard (lines 101-109); when the primitive
\* raises, the assignment of its result does not happen
LaunchAllGather(w, g, async_op) ==
    LET r == foreach_all_gather(w, g, async_op,
                 _all_gather_copy_in_stream_for_unshard(w, g),
                 _all_gather_stream_for_unshard(w, g))
    IN  IF collective_raises(w)
        THEN Emit([w EXCEPT !.raised = TRUE],
                  [Eff("all_gather_raised", g) EXCEPT
                       !.og = g, !.flag = async_op,
                       !.stream = _all_gather_copy_in_stream_for_unshard(w, g),
                       !.stream2 = _all_gather_stream_for_unshard(w, g)])
        ELSE
        Emit([w EXCEPT !.all_gather_result[g] = <<r>>],
             [Eff("all_gather", g) EXCEPT
                  !.og = g, !.flag = async_op,
                  !.stream = _all_gather_copy_in_stream_for_unshard(w, g),
                  !.stream2 = _all_gather_stream_for_unshard(w, g)])

\* unshard without the test for a pending result
unshard_ignores_pending(w, g, async_op) ==
    IF w.sharded_state[g] = "UNSHARDED" THEN w
    ELSE LaunchAllGather(w, g, async_op)

\* unshard without the test for the UNSHARDED state
unshard_ignores_unsharded(w, g, async_op) ==
    IF w.all_gather_result[g] # <<>> THEN w
    ELSE LaunchAllGather(w, g, async_op)

unshard(w, g, async_op) ==
    IF w.all_gather_result[g] # <<>> THEN w
    ELSE IF w.sharded_state[g] = "UNSHARDED" THEN w
    ELSE LaunchAllGather(w, g, async_op)

\* the wait of the all-gather stream alone
_wait_all_gather_streams_on_event_one(w, g, event) ==
    Emit(w, [Eff("wait_event", g) EXCEPT
                 !.stream = "all_gather_stream",
                 !.stream2 = event.kind, !.og = event.g])

_wait_all_gather_streams_on_event(w, g, event) ==
    Emit(Emit(w, [Eff("wait_event", g) EXCEPT
                      !.stream = "all_gather_copy_in_stream",
                      !.stream2 = event.kind, !.og = event.g]),
         [Eff("wait_event", g) EXCEPT
              !.stream = "all_gather_stream",
              !.stream2 = event.kind, !.og = event.g])

RECURSIVE ToShardedFrom(_, _, _)
\* for fsdp_param in self.fsdp_params: fsdp_param.to_sharded()
ToShardedFrom(w, g, i) ==
    IF i > Len(fsdp_params(g)) THEN w
    ELSE ToShardedFrom(to_sharded(w, g, fsdp_params(g)[i]), g, i + 1)

RECURSIVE ToUnshardedFrom(_, _, _)
ToUnshardedFrom(w, g, i) ==
    IF i > Len(fsdp_params(g)) THEN w
    ELSE ToUnshardedFrom(to_unsharded(w, g, fsdp_params(g)[i]), g, i + 1)

RECURSIVE InitUnshardedFrom(_, _, _)
InitUnshardedFrom(w, g, i) ==
    IF i > Len(fsdp_params(g)) THEN w
    ELSE InitUnshardedFrom(init_unsharded_param(w, g, fsdp_params(g)[i]), g, i + 1)

\* _to_sharded without the test of the group's state
_to_sharded_unconditional(w, g) ==
    [ToShardedFrom(w, g, 1) EXCEPT !.sharded_state[g] = "SHARDED"]

_to_sharded(w, g) ==
    IF w.sharded_state[g] # "SHARDED"
    THEN [ToShardedFrom(w, g, 1) EXCEPT !.sharded_state[g] = "SHARDED"]
    ELSE w

_to_unsharded(w, g) ==
    IF w.sharded_state[g] # "UNSHARDED"
    THEN [ToUnshardedFrom(w, g, 1) EXCEPT !.sharded_state[g] = "UNSHARDED"]
    ELSE w

\* reshard that marks the group SHARDED and leaves its parameters as they are
reshard_group_only(w, g) == [w EXCEPT !.sharded_state[g] = "SHARDED"]

reshard(w, g) == _to_sharded(w, g)

\* the event recorded after the copy-out of result r
CopyOutEvent(r) == [kind |-> "copy_out", g |-> r.g]

\* the previous state is read but left in the holder
PopPrevAllGatherState_peek(w, g) ==
    LET prev == w.all_gather_state
    IN  IF prev = <<>> THEN w
        ELSE _wait_all_gather_streams_on_event(w, g, prev[1].event)

\* the previous state is taken out of the holder and freed without a wait
\* of the all-gather streams for its event
PopPrevAllGatherState_no_wait(w, g) ==
    LET prev == w.all_gather_state
        w1 == holder_pop(w, g)
    IN  IF prev = <<>> THEN w1
        ELSE Emit(w1, [Eff("release", g) EXCEPT !.og = prev[1].all_gather_result.g])

\* the previous state is taken out of the holder and waited for, but its
\* buffers are not freed
PopPrevAllGatherState_no_release(w, g) ==
    LET prev == w.all_gather_state
        w1 == holder_pop(w, g)
    IN  IF prev = <<>> THEN w1
        ELSE _wait_all_gather_streams_on_event(w1, g, prev[1].event)

\* lines 122-125: in FORWARD take the previous state out of the holder, make
\* the all-gather streams wait for its event, and free it
PopPrevAllGatherState(w, g) ==
    LET prev == w.all_gather_state
        w1 == holder_pop(w, g)
    IN  IF prev = <<>> THEN w1
        ELSE Emit(_wait_all_gather_streams_on_event(w1, g, prev[1].event),
                  [Eff("release", g) EXCEPT !.og = prev[1].all_gather_result.g])

\* a wait that hands its result over through the holder in every training
\* state
WaitForPendingUnshard_any_state(w, g) ==
    LET r == w.all_gather_result[g][1]
        fwd == TRUE
        w1 == IF fwd THEN PopPrevAllGatherState(w, g) ELSE w
        w2 == Emit(w1, [Eff("copy_out", g) EXCEPT
                            !.og = r.g, !.stream = "current_stream"])
        w3 == InitUnshardedFrom(w2, g, 1)
        w4 == _to_unsharded(w3, g)
        ev == CopyOutEvent(r)
        w5 == Emit(w4, [Eff("record_event", g) EXCEPT
                            !.og = ev.g, !.stream = "current_stream",
                            !.stream2 = ev.kind])
        w6 == IF fwd
              THEN holder_put(w5, g, [all_gather_result |-> r, event |-> ev])
              ELSE _wait_all_gather_streams_on_event(w5, g, ev)
        w7 == Emit([w6 EXCEPT !.all_gather_result[g] = <<>>],
                   [Eff("clear_all_gather_result", g) EXCEPT !.og = r.g])
    IN  IF w6.raised THEN w6
        ELSE IF fwd THEN w7
        ELSE Emit(w7, [Eff("release", g) EXCEPT !.og = r.g])

\* lines 122-140: wait_for_unshard when an all-gather result is pending
WaitForPendingUnshard(w, g) ==
    LET r == w.all_gather_result[g][1]
        fwd == w.training_state[g] = "FORWARD"
        w1 == IF fwd THEN PopPrevAllGatherState(w, g) ELSE w
        w2 == Emit(w1, [Eff("copy_out", g) EXCEPT
                            !.og = r.g, !.stream = "current_stream"])
        w3 == InitUnshardedFrom(w2, g, 1)
        w4 == _to_unsharded(w3, g)
        ev == CopyOutEvent(r)
        w5 == Emit(w4, [Eff("record_event", g) EXCEPT
                            !.og = ev.g, !.stream = "current_stream",
                            !.stream2 = ev.kind])
        w6 == IF fwd
              THEN holder_put(w5, g, [all_gather_result |-> r, event |-> ev])
              ELSE _wait_all_gather_streams_on_event(w5, g, ev)
        \* line 140
        w7 == Emit([w6 EXCEPT !.all_gather_result[g] = <<>>],
                   [Eff("clear_all_gather_result", g) EXCEPT !.og = r.g])
    IN  IF w6.raised THEN w6
        ELSE IF fwd THEN w7
        ELSE Emit(w7, [Eff("release", g) EXCEPT !.og = r.g])

\* wait_for_unshard that tests for a pending result only after the pop of
\* the implicit prefetch
wait_for_unshard_pop_first(w, g) ==
    IF w.all_gather_result[g] = <<>>
    THEN (IF w.training_state[g] = "FORWARD" THEN PopPrevAllGatherState(w, g) ELSE w)
    ELSE WaitForPendingUnshard(w, g)

\* wait_for_unshard that leaves _all_gather_result as it is
wait_for_unshard_keeps_result(w, g) ==
    IF w.all_gather_result[g] = <<>> THEN w
    ELSE [WaitForPendingUnshard(w, g) EXCEPT
              !.all_gather_result[g] = w.all_gather_result[g]]

wait_for_unshard(w, g) ==
    IF w.all_gather_result[g] = <<>> THEN w  \* no preceding unshard
    ELSE WaitForPendingUnshard(w, g)

\* RegisterPostBackwardHook.apply on the inputs that require gradient
_register_post_backward_hook(w, g, grad_enabled, requires_grad) ==
    IF ~grad_enabled THEN w
    ELSE IF ~requires_grad THEN w
    ELSE Emit([w EXCEPT !.hooks[g] = @ + 1], Eff("register_hook", g))

\* pre_forward that takes the previous all-gather state out of the holder,
\* and waits for its event, before it launches its own all-gather
pre_forward_waits_first(w, g, grad_enabled, requires_grad) ==
    LET w1 == [w EXCEPT !.training_state[g] = "FORWARD"]
        w2 == IF w1.all_gather_result[g] = <<>> /\ w1.sharded_state[g] = "SHARDED"
              THEN PopPrevAllGatherState(w1, g) ELSE w1
        w3 == wait_for_unshard(unshard(w2, g, FALSE), g)
    IN  IF w3.raised THEN w3
        ELSE _register_post_backward_hook(w3, g, grad_enabled, requires_grad)

pre_forward(w, g, grad_enabled, requires_grad) ==
    LET w1 == [w EXCEPT !.training_state[g] = "FORWARD"]
        w2 == unshard(w1, g, FALSE)
        w3 == wait_for_unshard(w2, g)
    IN  IF w2.raised THEN w2
        ELSE IF w3.raised THEN w3
        ELSE _register_post_backward_hook(w3, g, grad_enabled, requires_grad)

\* post_forward that reshards but leaves the training state at FORWARD
post_forward_keeps_state(w, g) == reshard(w, g)

\* post_forward that sets IDLE but does not reshard
post_forward_no_reshard(w, g) == [w EXCEPT !.training_state[g] = "IDLE"]

post_forward(w, g) ==
    [reshard(w, g) EXCEPT !.training_state[g] = "IDLE"]

\* what post_forward returns for the module output `output`
post_forward_return(output) == output

\* pre_backward that launches the all-gather but does not wait for it
pre_backward_no_wait(w, g) ==
    unshard([w EXCEPT !.training_state[g] = "PRE_BACKWARD"], g, FALSE)

pre_backward(w, g) ==
    LET w1 == [w EXCEPT !.training_state[g] = "PRE_BACKWARD"]
        w2 == unshard(w1, g, FALSE)
    IN  IF w2.raised THEN w2 ELSE wait_for_unshard(w2, g)

\* lines 176-182: the parameters that have a gradient, in group order
RECURSIVE ParamsWithGradFrom(_, _, _)
ParamsWithGradFrom(w, g, i) ==
    IF i > Len(fsdp_params(g)) THEN <<>>
    ELSE (IF w.grad[g][fsdp_params(g)[i]] THEN <<fsdp_params(g)[i]>> ELSE <<>>)
         \o ParamsWithGradFrom(w, g, i + 1)

\* FSDPParam.unsharded_grad_data: the gradient tensor held by the unsharded
\* view of parameter p
unsharded_grad_data(w, g, p) == [grad_of |-> p, g |-> g]

RECURSIVE UnshardedGradsFrom_reversed(_, _, _)
\* a harvest that prepends each gradient to unsharded_grads
UnshardedGradsFrom_reversed(w, g, i) ==
    IF i > Len(fsdp_params(g)) THEN <<>>
    ELSE UnshardedGradsFrom_reversed(w, g, i + 1)
         \o (IF w.grad[g][fsdp_params(g)[i]]
             THEN <<unsharded_grad_data(w, g, fsdp_params(g)[i])>> ELSE <<>>)

RECURSIVE UnshardedGradsFrom(_, _, _)
\* lines 178-181: the gradient tensors appended to unsharded_grads
UnshardedGradsFrom(w, g, i) ==
    IF i > Len(fsdp_params(g)) THEN <<>>
    ELSE (IF w.grad[g][fsdp_params(g)[i]]
          THEN <<unsharded_grad_data(w, g, fsdp_params(g)[i])>> ELSE <<>>)
         \o UnshardedGradsFrom(w, g, i + 1)

\* FSDPParam.unsharded_param can be read: the unsharded view of parameter p
\* exists only while the parameter is UNSHARDED, and a read in another state
\* is a state violation, which raises
unsharded_param_readable(w, g, p) == w.param_state[g][p] = "UNSHARDED"

RECURSIVE HarvestGradsFrom_unchecked(_, _, _)
\* a harvest that reads the gradients whatever the state of the parameters
HarvestGradsFrom_unchecked(w, g, i) ==
    IF i > Len(fsdp_params(g)) THEN w
    ELSE LET p == fsdp_params(g)[i] IN
         IF w.grad[g][p]
         THEN HarvestGradsFrom_unchecked(
                  Emit([w EXCEPT !.grad[g][p] = FALSE],
                       [Eff("harvest_grad", g) EXCEPT !.id = p]), g, i + 1)
         ELSE HarvestGradsFrom_unchecked(w, g, i + 1)

RECURSIVE HarvestGradsFrom(_, _, _)
\* lines 178-182: read each gradient and set the grad attribute to None;
\* the read of fsdp_param.unsharded_param (line 179) raises when the
\* parameter is not UNSHARDED
HarvestGradsFrom(w, g, i) ==
    IF i > Len(fsdp_params(g)) THEN w
    ELSE LET p == fsdp_params(g)[i] IN
         IF ~unsharded_param_readable(w, g, p) THEN [w EXCEPT !.raised = TRUE]
         ELSE IF w.grad[g][p]
         THEN HarvestGradsFrom(
                  Emit([w EXCEPT !.grad[g][p] = FALSE],
                       [Eff("harvest_grad", g) EXCEPT !.id = p]), g, i + 1)
         ELSE HarvestGradsFrom(w, g, i + 1)

\* foreach_reduce_scatter: the event it returns
foreach_reduce_scatter(w, g) ==
    [kind |-> "reduce_scatter", g |-> g]

\* _post_backward that gives the gradients to the reduce-scatter but leaves
\* the group unsharded
_post_backward_no_reshard(w, g) ==
    LET w1 == Emit([w EXCEPT !.training_state[g] = "POST_BACKWARD"],
                   Eff("post_backward", g))
        fsdp_params_with_grad == ParamsWithGradFrom(w1, g, 1)
        w2 == HarvestGradsFrom(w1, g, 1)
    IN  IF w2.raised \/ Len(fsdp_params_with_grad) = 0 THEN w2
        ELSE Emit([w2 EXCEPT !.rs_event[g] = <<foreach_reduce_scatter(w2, g)>>],
                  [Eff("reduce_scatter", g) EXCEPT
                       !.stream = "reduce_scatter_stream", !.og = g,
                       !.ps = fsdp_params_with_grad, !.gs = UnshardedGradsFrom(w1, g, 1)])

\* _post_backward that gives the post-divide factor as the pre-reduction
\* scale and the pre-divide factor as the post-reduction scale
_post_backward_swapped_factors(w, g) ==
    LET w1 == Emit([w EXCEPT !.training_state[g] = "POST_BACKWARD"],
                   Eff("post_backward", g))
        fsdp_params_with_grad == ParamsWithGradFrom(w1, g, 1)
        w2 == HarvestGradsFrom(w1, g, 1)
        w3 == reshard(w2, g)
    IN  IF w2.raised THEN w2
        ELSE IF Len(fsdp_params_with_grad) = 0 THEN w3
        ELSE Emit([w3 EXCEPT !.rs_event[g] = <<foreach_reduce_scatter(w3, g)>>],
                  [Eff("reduce_scatter", g) EXCEPT
                       !.stream = "reduce_scatter_stream", !.og = g,
                       !.ps = fsdp_params_with_grad, !.gs = UnshardedGradsFrom(w1, g, 1),
                       !.group = _reduce_scatter_process_group(w3, g),
                       !.pre_factor = w3.grad_divide_factors[1].post,
                       !.post_factor = w3.grad_divide_factors[1].pre])

\* _post_backward that reshards first and reads the gradients afterwards
_post_backward_reshard_first(w, g) ==
    LET w1 == Emit([w EXCEPT !.training_state[g] = "POST_BACKWARD"],
                   Eff("post_backward", g))
        fsdp_params_with_grad == ParamsWithGradFrom(w1, g, 1)
        w3 == HarvestGradsFrom(reshard(w1, g), g, 1)
    IN  IF w3.raised \/ Len(fsdp_params_with_grad) = 0 THEN w3
        ELSE Emit([w3 EXCEPT !.rs_event[g] = <<foreach_reduce_scatter(w3, g)>>],
                  [Eff("reduce_scatter", g) EXCEPT
                       !.stream = "reduce_scatter_stream", !.og = g,
                       !.ps = fsdp_params_with_grad,
                       !.gs = UnshardedGradsFrom(w1, g, 1),
                       !.group = _reduce_scatter_process_group(w3, g),
                       !.pre_factor = w3.grad_divide_factors[1].pre,
                       !.post_factor = w3.grad_divide_factors[1].post])

\* _post_backward that returns as soon as it finds no gradient, before the
\* reshard
_post_backward_early_return(w, g) ==
    LET w1 == Emit([w EXCEPT !.training_state[g] = "POST_BACKWARD"],
                   Eff("post_backward", g))
        fsdp_params_with_grad == ParamsWithGradFrom(w1, g, 1)
        w2 == HarvestGradsFrom(w1, g, 1)
        w3 == reshard(w2, g)
    IN  IF w2.raised THEN w2
        ELSE IF Len(fsdp_params_with_grad) = 0 THEN w1
        ELSE Emit([w3 EXCEPT !.rs_event[g] = <<foreach_reduce_scatter(w3, g)>>],
                  [Eff("reduce_scatter", g) EXCEPT
                       !.stream = "reduce_scatter_stream", !.og = g,
                       !.ps = fsdp_params_with_grad,
                       !.gs = UnshardedGradsFrom(w1, g, 1),
                       !.group = _reduce_scatter_process_group(w3, g),
                       !.pre_factor = w3.grad_divide_factors[1].pre,
                       !.post_factor = w3.grad_divide_factors[1].post])

_post_backward(w, g) ==
    LET w1 == Emit([w EXCEPT !.training_state[g] = "POST_BACKWARD"],
                   Eff("post_backward", g))
        fsdp_params_with_grad == ParamsWithGradFrom(w1, g, 1)
        unsharded_grads == UnshardedGradsFrom(w1, g, 1)
        w2 == HarvestGradsFrom(w1, g, 1)
        w3 == reshard(w2, g)
    IN  IF w2.raised THEN w2
        ELSE IF Len(fsdp_params_with_grad) = 0 THEN w3
        ELSE LET ev == foreach_reduce_scatter(w3, g)
                 e == [Eff("reduce_scatter", g) EXCEPT
                       !.stream = "reduce_scatter_stream", !.og = g,
                       !.ps = fsdp_params_with_grad, !.gs = unsharded_grads,
                       !.group = _reduce_scatter_process_group(w3, g),
                       !.pre_factor = w3.grad_divide_factors[1].pre,
                       !.post_factor = w3.grad_divide_factors[1].post]
             IN  \* when the primitive raises, line 187 assigns nothing
                 IF collective_raises(w3)
                 THEN Emit([w3 EXCEPT !.raised = TRUE],
                           [e EXCEPT !.kind = "reduce_scatter_raised"])
                 ELSE Emit([w3 EXCEPT !.rs_event[g] = <<ev>>], e)

\* RegisterPostBackwardHook.backward: the hook node is consumed and calls
\* param_group._post_backward()
hook_backward(w, g) == _post_backward([w EXCEPT !.hooks[g] = @ - 1], g)

\* finalize_backward that waits for the event before the fallback call
finalize_backward_wait_first(w, g) ==
    LET w1 == IF w.rs_event[g] # <<>>
              THEN Emit([w EXCEPT !.rs_event[g] = <<>>],
                        [Eff("wait_event", g) EXCEPT
                             !.stream = "current_stream",
                             !.stream2 = w.rs_event[g][1].kind,
                             !.og = w.rs_event[g][1].g])
              ELSE w
        w2 == IF w1.sharded_state[g] = "UNSHARDED" THEN _post_backward(w1, g) ELSE w1
    IN  [w2 EXCEPT !.training_state[g] = "IDLE"]

\* finalize_backward without the fallback call of _post_backward
finalize_backward_no_fallback(w, g) ==
    LET w2 == IF w.rs_event[g] # <<>>
              THEN Emit([w EXCEPT !.rs_event[g] = <<>>],
                        [Eff("wait_event", g) EXCEPT
                             !.stream = "current_stream",
                             !.stream2 = w.rs_event[g][1].kind,
                             !.og = w.rs_event[g][1].g])
              ELSE w
    IN  [w2 EXCEPT !.training_state[g] = "IDLE"]

finalize_backward(w, g) ==
    LET w1 == IF w.sharded_state[g] = "UNSHARDED" THEN _post_backward(w, g) ELSE w
        w2 == IF w1.rs_event[g] # <<>>
              THEN Emit([w1 EXCEPT !.rs_event[g] = <<>>],
                        [Eff("wait_event", g) EXCEPT
                             !.stream = "current_stream",
                             !.stream2 = w1.rs_event[g][1].kind,
                             !.og = w1.rs_event[g][1].g])
              ELSE w1
    IN  IF w1.raised THEN w1
        ELSE [w2 EXCEPT !.training_state[g] = "IDLE"]

RECURSIVE LaunchedFrom(_, _, _, _)
\* the all-gathers launched for group g since its last reshard, after the
\* effects of lg from position i on, when there were n before them
LaunchedFrom(n, lg, g, i) ==
    IF i > Len(lg) THEN n
    ELSE LaunchedFrom(IF lg[i].kind = "all_gather" /\ lg[i].og = g THEN n + 1
                      ELSE IF lg[i].kind = "to_sharded" /\ lg[i].g = g THEN 0
                      ELSE n,
                      lg, g, i + 1)

LaunchedAfter(lg) == [g \in Groups |-> LaunchedFrom(launched[g], lg, g, 1)]

\* the state after a handler call that produced world w
Commit(w) ==
    /\ training_state' = w.training_state
    /\ sharded_state' = w.sharded_state
    /\ param_state' = w.param_state
    /\ all_gather_result' = w.all_gather_result
    /\ rs_event' = w.rs_event
    /\ grad' = w.grad
    /\ hooks' = w.hooks
    /\ all_gather_state' = w.all_gather_state
    /\ launched' = LaunchedAfter(w.log)
    /\ raised' = w.raised
    /\ current_stream' = w.current_stream
    /\ streams' = w.streams
    /\ program' = program
    /\ done' = done
    /\ hook_call' = hook_call
    /\ mesh_info' = w.mesh_info
    /\ grad_divide_factors' = w.grad_divide_factors
    /\ construction' = construction
    /\ setup' = setup

\* ------------------------------------------------------------------ actions
Init ==
    /\ training_state = [g \in Groups |-> "IDLE"]
    /\ sharded_state = [g \in Groups |-> "SHARDED"]
    /\ param_state = [g \in Groups |-> [p \in Params(g) |-> "SHARDED"]]
    /\ all_gather_result = [g \in Groups |-> <<>>]
    /\ rs_event = [g \in Groups |-> <<>>]
    /\ grad = [g \in Groups |-> [p \in Params(g) |-> FALSE]]
    /\ hooks = [g \in Groups |-> 0]
    /\ all_gather_state = <<>>
    /\ launched = [g \in Groups |-> 0]
    /\ raised = FALSE
    /\ current_stream = ConstructionStream
    /\ streams = [name \in StreamNames |-> StreamAttr(name)]
    /\ program = <<>>
    /\ done = {}
    /\ hook_call = <<>>
    /\ mesh_info = TrainingMesh
    /\ grad_divide_factors = <<_init_grad_divide_factors(mesh_info)>>
    /\ construction = <<>>
    /\ setup \in Setups

\* group.unshard(async_op), called by a prefetching scheduler or the user
Unshard(g, async_op) ==
    /\ ~raised
    /\ Commit(unshard(World, g, async_op))

WaitForUnshard(g) ==
    /\ ~raised
    /\ Commit(wait_for_unshard(World, g))

Reshard(g) ==
    /\ ~raised
    /\ Commit(reshard(World, g))

PreForward(g, grad_enabled, requires_grad) ==
    /\ ~raised
    /\ (grad_enabled /\ requires_grad) => hooks[g] < MaxHooks
    /\ Commit(pre_forward(World, g, grad_enabled, requires_grad))

PostForward(g) ==
    /\ ~raised
    /\ Commit(post_forward(World, g))

PreBackward(g) ==
    /\ ~raised
    /\ Commit(pre_backward(World, g))

\* autograd accumulates the gradient of an unsharded parameter of g while
\* g's backward computation runs
accumulate_grad(w, g, p) == [w EXCEPT !.grad[g][p] = TRUE]

AccumulateGrad(g, p) ==
    /\ ~raised
    /\ setup = "one_group"
    /\ sharded_state[g] = "UNSHARDED"
    /\ training_state[g] = "PRE_BACKWARD"
    /\ ~grad[g][p]
    /\ Commit(accumulate_grad(World, g, p))

\* RegisterPostBackwardHook.backward: autograd runs a hook node of g
HookBackward(g) ==
    /\ ~raised
    /\ hooks[g] > 0
    /\ Commit(hook_backward(World, g))

FinalizeBackward(g) ==
    /\ ~raised
    /\ Commit(finalize_backward(World, g))

\* the caller makes stream s current (torch.cuda.stream(s), or leaving it)
set_stream(w, s) == [w EXCEPT !.current_stream = s]

SetStream(s) ==
    /\ ~raised
    /\ current_stream # s
    /\ Commit(set_stream(World, s))

\* the groups of the wrapped model
GroupsInUse == IF setup = "one_group" THEN {1} ELSE Groups

Next ==
    \/ \E g \in GroupsInUse, async_op \in BOOLEAN : Unshard(g, async_op)
    \/ \E g \in GroupsInUse : WaitForUnshard(g)
    \/ \E g \in GroupsInUse : Reshard(g)
    \/ \E g \in GroupsInUse, grad_enabled \in BOOLEAN, requires_grad \in BOOLEAN :
           PreForward(g, grad_enabled, requires_grad)
    \/ \E g \in GroupsInUse : PostForward(g)
    \/ \E g \in GroupsInUse : PreBackward(g)
    \/ \E g \in GroupsInUse : \E p \in Params(g) : AccumulateGrad(g, p)
    \/ \E g \in GroupsInUse : HookBackward(g)
    \/ \E g \in GroupsInUse : FinalizeBackward(g)
    \/ \E s \in CudaStreams : SetStream(s)

Spec == Init /\ [][Next]_vars

\* ------------------------------------------------- collectives that fail
\* The calls of the handlers that launch a collective, made while the
\* process group fails: the collective raises.
UnshardFails(g, async_op) ==
    /\ ~raised
    /\ Commit(unshard(WorldWhere(TRUE), g, async_op))

PreForwardFails(g, grad_enabled, requires_grad) ==
    /\ ~raised
    /\ (grad_enabled /\ requires_grad) => hooks[g] < MaxHooks
    /\ Commit(pre_forward(WorldWhere(TRUE), g, grad_enabled, requires_grad))

PreBackwardFails(g) ==
    /\ ~raised
    /\ Commit(pre_backward(WorldWhere(TRUE), g))

HookBackwardFails(g) ==
    /\ ~raised
    /\ hooks[g] > 0
    /\ Commit(hook_backward(WorldWhere(TRUE), g))

FinalizeBackwardFails(g) ==
    /\ ~raised
    /\ Commit(finalize_backward(WorldWhere(TRUE), g))

NextFail ==
    \/ Next
    \/ \E g \in GroupsInUse, async_op \in BOOLEAN : UnshardFails(g, async_op)
    \/ \E g \in GroupsInUse, grad_enabled \in BOOLEAN, requires_grad \in BOOLEAN :
           PreForwardFails(g, grad_enabled, requires_grad)
    \/ \E g \in GroupsInUse : PreBackwardFails(g)
    \/ \E g \in GroupsInUse : HookBackwardFails(g)
    \/ \E g \in GroupsInUse : FinalizeBackwardFails(g)

SpecFail == Init /\ [][NextFail]_vars

\* -------------------------------------------- construction: divide factors
\* A group is constructed with each mesh: the state before __init__ calls
\* _init_grad_divide_factors (line 53), and the call.
group_vars ==
    <<training_state, sharded_state, param_state, all_gather_result, rs_event,
      grad, hooks, all_gather_state, launched, raised, current_stream,
      streams, program, done, hook_call, setup>>

\* the fields of a group in the state that lines 40-61 set
FieldsAfterInit ==
    /\ training_state = [g \in Groups |-> "IDLE"]
    /\ sharded_state = [g \in Groups |-> "SHARDED"]
    /\ param_state = [g \in Groups |-> [p \in Params(g) |-> "SHARDED"]]
    /\ all_gather_result = [g \in Groups |-> <<>>]
    /\ rs_event = [g \in Groups |-> <<>>]
    /\ grad = [g \in Groups |-> [p \in Params(g) |-> FALSE]]
    /\ hooks = [g \in Groups |-> 0]
    /\ all_gather_state = <<>>
    /\ launched = [g \in Groups |-> 0]
    /\ raised = FALSE
    /\ current_stream = ConstructionStream
    /\ streams = [name \in StreamNames |-> StreamAttr(name)]
    /\ program = <<>>
    /\ done = {}
    /\ setup = "one_group"

InitFactors ==
    /\ FieldsAfterInit
    /\ hook_call = <<>>
    /\ construction = <<>>
    /\ mesh_info \in MeshInfos
    /\ grad_divide_factors = <<>>

InitGradDivideFactors ==
    /\ grad_divide_factors = <<>>
    /\ grad_divide_factors' = <<_init_grad_divide_factors(mesh_info)>>
    /\ UNCHANGED <<group_vars, mesh_info, construction>>

NextFactors == InitGradDivideFactors

SpecFactors == InitFactors /\ [][NextFactors]_vars

\* ------------------------------------- construction: parameters and dtypes
\* ParamModuleInfo(module, param_name): the shared lists start empty
ParamModuleInfo(submodule, param_name) ==
    [module |-> submodule, param_name |-> param_name,
     shared_modules |-> <<>>, shared_param_names |-> <<>>]

\* the (param_name, param) pairs of submodule m, with the submodule, in the
\* order of _named_parameters_with_duplicates(submodule, recurse=False)
SubmoduleBindings(module, m) ==
    [j \in 1..Len(module.named_parameters[m]) |->
         [submodule |-> m, param_name |-> ParamNames[j],
          param |-> module.named_parameters[m][j]]]

RECURSIVE TraversalFrom(_, _)
\* lines 295-298: what the two nested loops visit, from the i-th submodule on
TraversalFrom(module, i) ==
    IF i > Len(module.named_modules) THEN <<>>
    ELSE SubmoduleBindings(module, module.named_modules[i])
         \o TraversalFrom(module, i + 1)

\* the dict with key k set to v
DictSet(d, k, v) == [q \in DOMAIN d \cup {k} |-> IF q = k THEN v ELSE d[q]]

\* the loop body in which a later binding replaces the recorded one
VisitBinding_overwrite(params_set, param_to_module_info, b) ==
    IF b.param \in params_set
    THEN DictSet(param_to_module_info, b.param,
                 ParamModuleInfo(b.submodule, b.param_name))
    ELSE param_to_module_info

\* lines 299-304: the body of the inner loop for the binding b
VisitBinding(params_set, param_to_module_info, b) ==
    IF b.param \in params_set
    THEN IF b.param \notin DOMAIN param_to_module_info
         THEN DictSet(param_to_module_info, b.param,
                      ParamModuleInfo(b.submodule, b.param_name))
         ELSE DictSet(param_to_module_info, b.param,
                  [param_to_module_info[b.param] EXCEPT
                       !.shared_modules = Append(@, b.submodule),
                       !.shared_param_names = Append(@, b.param_name)])
    ELSE param_to_module_info

RECURSIVE VisitFrom(_, _, _, _)
\* lines 295-304: the loops from the i-th binding on
VisitFrom(params_set, bindings, i, param_to_module_info) ==
    IF i > Len(bindings) THEN param_to_module_info
    ELSE VisitFrom(params_set, bindings, i + 1,
                   VisitBinding(params_set, param_to_module_info, bindings[i]))

\* _get_param_module_infos that returns the infos it found without the test
\* of line 305
_get_param_module_infos_unchecked(params, module) ==
    LET params_set == {params[i] : i \in 1..Len(params)}
        d == VisitFrom(params_set, TraversalFrom(module, 1), 1, <<>>)
        found == SelectSeq(params, LAMBDA q : q \in DOMAIN d)
    IN  [raised |-> FALSE, value |-> [i \in 1..Len(found) |-> d[found[i]]]]

\* what it returns (value), or that it raises
_get_param_module_infos(params, module) ==
    LET params_set == {params[i] : i \in 1..Len(params)}
        param_to_module_info ==
            VisitFrom(params_set, TraversalFrom(module, 1), 1, <<>>)
    IN  IF Cardinality(DOMAIN param_to_module_info) # Len(params)
        THEN [raised |-> TRUE, value |-> <<>>]
        ELSE [raised |-> FALSE,
              value |-> [i \in 1..Len(params) |-> param_to_module_info[params[i]]]]

\* FSDPParam(param, module_info, mesh_info, device): records the original
\* dtype of the parameter and its module binding
FSDPParam(param, module_info, dtype) ==
    [param |-> param, module_info |-> module_info, orig_dtype |-> dtype[param]]

\* lines 34-37
MakeFSDPParams(params, param_module_infos, dtype) ==
    [i \in 1..Len(params) |-> FSDPParam(params[i], param_module_infos[i], dtype)]

\* _init_mp_dtypes that takes the dtype of the first parameter
_init_mp_dtypes_first(params_of_group) ==
    IF Len(params_of_group) = 0
    THEN [raised |-> TRUE, orig_dtype |-> "", param_dtype |-> ""]
    ELSE [raised |-> FALSE, orig_dtype |-> params_of_group[1].orig_dtype,
          param_dtype |-> params_of_group[1].orig_dtype]

\* _init_mp_dtypes on the list self.fsdp_params: the two fields it sets, or
\* that it raises
_init_mp_dtypes(params_of_group) ==
    LET orig_dtypes ==
            {params_of_group[i].orig_dtype : i \in 1..Len(params_of_group)}
    IN  IF Cardinality(orig_dtypes) # 1
        THEN [raised |-> TRUE, orig_dtype |-> "", param_dtype |-> ""]
        ELSE LET _orig_dtype == CHOOSE d \in orig_dtypes : TRUE
             IN  [raised |-> FALSE, orig_dtype |-> _orig_dtype,
                  param_dtype |-> _orig_dtype]

\* a call of __init__ with arguments a, before its first statement
NewConstruction(a) ==
    [pc |-> "start", params |-> a.params, module |-> a.module, dtype |-> a.dtype,
     param_module_infos |-> <<>>, fsdp_params |-> <<>>,
     orig_dtype |-> "", param_dtype |-> "", error |-> ""]

InitConstruct ==
    /\ FieldsAfterInit
    /\ hook_call = <<>>
    /\ mesh_info = TrainingMesh
    /\ grad_divide_factors = <<>>
    /\ \E a \in ConstructorArgs : construction = <<NewConstruction(a)>>

\* line 33
GetParamModuleInfos ==
    /\ construction # <<>> /\ construction[1].pc = "start"
    /\ LET c == construction[1]
           r == _get_param_module_infos(c.params, c.module)
       IN  construction' =
               IF r.raised
               THEN <<[c EXCEPT !.pc = "raised", !.error = "module_tree"]>>
               ELSE <<[c EXCEPT !.pc = "param_module_infos",
                                !.param_module_infos = r.value]>>
    /\ UNCHANGED <<group_vars, mesh_info, grad_divide_factors>>

\* lines 34-37
CreateFSDPParams ==
    /\ construction # <<>> /\ construction[1].pc = "param_module_infos"
    /\ LET c == construction[1]
       IN  construction' =
               <<[c EXCEPT !.pc = "fsdp_params",
                           !.fsdp_params =
                               MakeFSDPParams(c.params, c.param_module_infos, c.dtype)]>>
    /\ UNCHANGED <<group_vars, mesh_info, grad_divide_factors>>

\* line 43
InitMpDtypes ==
    /\ construction # <<>> /\ construction[1].pc = "fsdp_params"
    /\ LET c == construction[1]
           r == _init_mp_dtypes(c.fsdp_params)
       IN  construction' =
               IF r.raised
               THEN <<[c EXCEPT !.pc = "raised", !.error = "dtype"]>>
               ELSE <<[c EXCEPT !.pc = "mp_dtypes", !.orig_dtype = r.orig_dtype,
                                !.param_dtype = r.param_dtype]>>
    /\ UNCHANGED <<group_vars, mesh_info, grad_divide_factors>>

NextConstruct ==
    \/ GetParamModuleInfos
    \/ CreateFSDPParams
    \/ InitMpDtypes

SpecConstruct == InitConstruct /\ [][NextConstruct]_vars

\* ------------------------------------------------ accelerator: the streams
\* The host runs a training step without blocking: every collective, event
\* record and stream wait is enqueued on a stream.  The accelerator then
\* executes the commands in any order that keeps the order of each stream
\* and makes a wait follow the record of the event it waits for.

\* a command of kind `kind` on stream object `on`, for the all-gather result,
\* the gradients or the event (of kind `ev`) of group g, enqueued by a call
\* on group `by`
Cmd(kind, by, g, on, ev) == [kind |-> kind, by |-> by, g |-> g, on |-> on, ev |-> ev]

\* the commands an effect enqueues.  all_gather: the copy-in on the copy-in
\* stream, then the collective on the all-gather stream and its completion
\* marker.  copy_out: the stream that consumes the result waits for the
\* marker and splits the buffer.  reduce_scatter: the collective on its
\* stream and the event it returns.  Calls on parameters and on the holder
\* enqueue nothing.
Commands(e) ==
    CASE e.kind = "all_gather" ->
             <<Cmd("copy_in", e.g, e.og, e.on, ""),
               Cmd("record", e.g, e.og, e.on, "copy_in"),
               Cmd("wait", e.g, e.og, e.on2, "copy_in"),
               Cmd("all_gather", e.g, e.og, e.on2, ""),
               Cmd("record", e.g, e.og, e.on2, "all_gather")>>
      [] e.kind = "copy_out" ->
             <<Cmd("wait", e.g, e.og, e.on, "all_gather"),
               Cmd("copy_out", e.g, e.og, e.on, "")>>
      [] e.kind = "record_event" -> <<Cmd("record", e.g, e.og, e.on, e.stream2)>>
      [] e.kind = "wait_event" -> <<Cmd("wait", e.g, e.og, e.on, e.stream2)>>
      [] e.kind = "reduce_scatter" ->
             <<Cmd("reduce_scatter", e.g, e.og, e.on, ""),
               Cmd("record", e.g, e.og, e.on, "reduce_scatter")>>
      [] e.kind \in {"compute", "optimizer"} -> <<Cmd(e.kind, e.g, e.og, e.on, "")>>
      [] OTHER -> <<>>

RECURSIVE CommandsFrom(_, _)
\* the commands of the effects of a log, from its i-th effect on
CommandsFrom(lg, i) ==
    IF i > Len(lg) THEN <<>> ELSE Commands(lg[i]) \o CommandsFrom(lg, i + 1)

\* the computation of the module of group g, forward or backward: kernels on
\* the current stream that read the unsharded parameters of g
compute(w, g) ==
    Emit(w, [Eff("compute", g) EXCEPT !.stream = "current_stream", !.og = g])

\* optim.step(): reads the sharded gradients of g on the default stream
optimizer_step(w, g) ==
    Emit(w, [Eff("optimizer", g) EXCEPT !.stream = "default_stream", !.og = g])

\* autograd accumulates the gradients of all parameters in S
RECURSIVE accumulate_grads(_, _, _)
accumulate_grads(w, g, S) ==
    IF S = {} THEN w
    ELSE LET p == CHOOSE q \in S : TRUE
         IN  accumulate_grads(accumulate_grad(w, g, p), g, S \ {p})

\* the forward of the module of group g: its pre-forward hook, its
\* computation, its post-forward hook
module_forward(w, g, requires_grad) ==
    post_forward(compute(pre_forward(w, g, TRUE, requires_grad), g), g)

\* the backward of the module of group g: its pre-backward hook, its
\* computation, which accumulates the gradients of S, and the backward of
\* the hook node if the forward registered one
module_backward(w, g, S) ==
    LET w1 == accumulate_grads(compute(pre_backward(w, g), g), g, S)
    IN  IF w1.hooks[g] > 0 THEN hook_backward(w1, g) ELSE w1

\* one training step of a module wrapped as one group, whose input requires
\* gradient or not: forward, backward, finalize_backward, optimizer
train_one_group(w, requires_grad, S) ==
    LET w1 == module_forward(w, 1, requires_grad)
        w2 == module_backward(w1, 1, S)
        w3 == finalize_backward(w2, 1)
    IN  IF S = {} THEN w3 ELSE optimizer_step(w3, 1)

\* one training step of two modules in sequence, each wrapped as a group,
\* with frozen parameters: the input of the second is the output of the
\* first
train_two_groups(w, requires_grad) ==
    LET w1 == module_forward(w, 1, requires_grad)
        w2 == module_forward(w1, 2, requires_grad)
        w3 == module_backward(w2, 2, {})
        w4 == module_backward(w3, 1, {})
    IN  finalize_backward(finalize_backward(w4, 1), 2)

InitStreams ==
    /\ training_state = [g \in Groups |-> "IDLE"]
    /\ sharded_state = [g \in Groups |-> "SHARDED"]
    /\ param_state = [g \in Groups |-> [p \in Params(g) |-> "SHARDED"]]
    /\ all_gather_result = [g \in Groups |-> <<>>]
    /\ rs_event = [g \in Groups |-> <<>>]
    /\ grad = [g \in Groups |-> [p \in Params(g) |-> FALSE]]
    /\ hooks = [g \in Groups |-> 0]
    /\ all_gather_state = <<>>
    /\ launched = [g \in Groups |-> 0]
    /\ raised = FALSE
    /\ current_stream \in CudaStreams
    /\ streams \in StreamConfigs
    /\ program = <<>>
    /\ done = {}
    /\ hook_call = <<>>
    /\ mesh_info = TrainingMesh
    /\ grad_divide_factors = <<_init_grad_divide_factors(mesh_info)>>
    /\ construction = <<>>
    /\ setup \in Setups

\* the host runs a training step: the state it leaves, and the commands it
\* has enqueued
TrainingStep(requires_grad, S) ==
    /\ program = <<>>
    /\ \E w \in {IF setup = "one_group"
                 THEN train_one_group(World, requires_grad, S)
                 ELSE train_two_groups(World, requires_grad)} :
           /\ ~w.raised
           /\ program' = CommandsFrom(w.log, 1)
           /\ done' = done
           /\ training_state' = w.training_state
           /\ sharded_state' = w.sharded_state
           /\ param_state' = w.param_state
           /\ all_gather_result' = w.all_gather_result
           /\ rs_event' = w.rs_event
           /\ grad' = w.grad
           /\ hooks' = w.hooks
           /\ all_gather_state' = w.all_gather_state
           /\ launched' = LaunchedAfter(w.log)
    /\ UNCHANGED <<raised, current_stream, streams, hook_call, mesh_info,
                   grad_divide_factors, construction, setup>>

\* the record that the wait at position i waits for: the last record of
\* its event enqueued before it
RecordOf(prog, i) ==
    LET recs == {j \in 1..(i - 1) : /\ prog[j].kind = "record"
                                    /\ prog[j].ev = prog[i].ev
                                    /\ prog[j].g = prog[i].g}
    IN  {j \in recs : \A k \in recs : k <= j}

\* the command at position i may execute: the commands enqueued before it
\* on its stream have executed and, for a wait, the event was recorded
Ready(prog, executed, i) ==
    /\ i \notin executed
    /\ \A j \in 1..(i - 1) : prog[j].on = prog[i].on => j \in executed
    /\ prog[i].kind = "wait" => RecordOf(prog, i) \subseteq executed

\* the accelerator executes the command at position i
Execute(i) ==
    /\ Ready(program, done, i)
    /\ done' = done \cup {i}
    /\ UNCHANGED <<training_state, sharded_state, param_state,
                   all_gather_result, rs_event, grad, hooks, all_gather_state,
                   launched, raised, current_stream, streams, program, hook_call,
                   mesh_info, grad_divide_factors, construction, setup>>

NextStreams ==
    \/ \E requires_grad \in BOOLEAN, S \in SUBSET Params(1) :
           TrainingStep(requires_grad, S)
    \/ \E i \in 1..Len(program) : Execute(i)

SpecStreams == InitStreams /\ [][NextStreams]_vars

\* ----------------------------------------------------------- the hook bridge
\* An object that occurs in the arguments of a forward: a tensor or not, and
\* for a tensor whether it requires gradient, the autograd node that made
\* it (grad_fn) and which of the node's outputs it is.
Obj(is_tensor, requires_grad, id) ==
    [is_tensor |-> is_tensor, requires_grad |-> requires_grad, id |-> id,
     grad_fn |-> "", output_nr |-> 0]

TensorA == Obj(TRUE, TRUE, "a")
TensorB == Obj(TRUE, TRUE, "b")
TensorC == Obj(TRUE, FALSE, "c")
NonTensor == Obj(FALSE, FALSE, "x")
NoObj == Obj(FALSE, FALSE, "")

\* pytrees: a leaf holds an object, a tuple its elements, a dict its values
\* in the order of its keys
Leaf(o) == [kind |-> "leaf", obj |-> o, keys |-> <<>>, children |-> <<>>]
TupleOf(cs) == [kind |-> "tuple", obj |-> NoObj, keys |-> <<>>, children |-> cs]
DictOf(cs) ==
    [kind |-> "dict", obj |-> NoObj, keys |-> [i \in 1..Len(cs) |-> i],
     children |-> cs]

\* the args of a forward: a tuple of objects and of tuples of tensors; its
\* kwargs: a dict of objects
ArgElements ==
    {Leaf(o) : o \in {TensorA, TensorB, TensorC, NonTensor}}
    \cup {TupleOf(cs) : cs \in SeqsOf({Leaf(TensorB), Leaf(TensorC)}, 0, MaxNested)}
ArgsTrees == {TupleOf(cs) : cs \in SeqsOf(ArgElements, 0, MaxArgs)}
KwargsTrees ==
    {DictOf(cs) : cs \in SeqsOf({Leaf(TensorA), Leaf(NonTensor)}, 0, MaxKwargs)}

RECURSIVE tree_leaves(_)
RECURSIVE LeavesFrom(_, _)
\* the leaves of a tree, depth first, left to right
tree_leaves(t) ==
    IF t.kind = "leaf" THEN <<t.obj>> ELSE LeavesFrom(t.children, 1)

\* the leaves of the children cs, from the i-th child on
LeavesFrom(cs, i) ==
    IF i > Len(cs) THEN <<>> ELSE tree_leaves(cs[i]) \o LeavesFrom(cs, i + 1)

RECURSIVE tree_spec(_)
\* the TreeSpec of a tree: its structure without the objects
tree_spec(t) ==
    IF t.kind = "leaf" THEN Leaf(NoObj)
    ELSE [t EXCEPT !.children = [i \in 1..Len(t.children) |-> tree_spec(t.children[i])]]

\* tree_flatten: the list of leaves and the TreeSpec
tree_flatten(t) == [list |-> tree_leaves(t), spec |-> tree_spec(t)]

RECURSIVE tree_unflatten(_, _)
\* tree_unflatten: the tree of TreeSpec `spec` whose leaves are `list`
tree_unflatten(list, spec) ==
    IF spec.kind = "leaf" THEN Leaf(list[1])
    ELSE [spec EXCEPT
              !.children =
                  [i \in 1..Len(spec.children) |->
                       LET before == Len(LeavesFrom(SubSeq(spec.children, 1, i - 1), 1))
                           here == Len(tree_leaves(spec.children[i]))
                       IN  tree_unflatten(SubSeq(list, before + 1, before + here),
                                          spec.children[i])]]

\* RegisterPostBackwardHook.forward (lines 311-319): binds the group to the
\* ctx and returns its inputs
RegisterPostBackwardHook_forward(param_group, inputs) ==
    [ctx |-> [param_group |-> param_group], outputs |-> inputs]

\* RegisterPostBackwardHook.apply: autograd runs forward and makes every
\* tensor it returns an output of the new node
RegisterPostBackwardHook_apply(param_group, inputs) ==
    LET f == RegisterPostBackwardHook_forward(param_group, inputs)
    IN  [ctx |-> f.ctx,
         outputs |-> [k \in 1..Len(f.outputs) |->
                          [f.outputs[k] EXCEPT !.grad_fn = "RegisterPostBackwardHook",
                                               !.output_nr = k]]]

\* the indices of all tensors, requiring gradient or not
InpTensorIndices_all_tensors(args_kwargs_list) ==
    SelectSeq([i \in 1..Len(args_kwargs_list) |-> i],
              LAMBDA i : args_kwargs_list[i].is_tensor)

\* lines 232-238: inp_tensor_indices
InpTensorIndices(args_kwargs_list) ==
    SelectSeq([i \in 1..Len(args_kwargs_list) |-> i],
              LAMBDA i : ~(~args_kwargs_list[i].is_tensor
                           \/ ~args_kwargs_list[i].requires_grad))

RECURSIVE ReplaceFrom(_, _, _, _)
\* lines 241-242: the list with the outputs written back at their indices,
\* from the k-th pair of the zip on
ReplaceFrom(args_kwargs_list, inp_tensor_indices, inp_tensors, k) ==
    IF k > Len(inp_tensor_indices) \/ k > Len(inp_tensors) THEN args_kwargs_list
    ELSE ReplaceFrom([args_kwargs_list EXCEPT ![inp_tensor_indices[k]] = inp_tensors[k]],
                     inp_tensor_indices, inp_tensors, k + 1)

\* what _register_post_backward_hook returns for args and kwargs (lines
\* 223-247), and the ctx of the node it installed (<<>> if none)
_register_post_backward_hook_return(param_group, args, kwargs, grad_enabled) ==
    LET a == tree_flatten(args)
        kw == tree_flatten(kwargs)
        args_kwargs_list == a.list \o kw.list
        inp_tensor_indices == InpTensorIndices(args_kwargs_list)
        inp_tensors == [k \in 1..Len(inp_tensor_indices) |->
                            args_kwargs_list[inp_tensor_indices[k]]]
        applied == RegisterPostBackwardHook_apply(param_group, inp_tensors)
        replaced == ReplaceFrom(args_kwargs_list, inp_tensor_indices,
                                applied.outputs, 1)
        args_list == SubSeq(replaced, 1, Len(a.list))
        kwargs_list == SubSeq(replaced, Len(args_list) + 1, Len(replaced))
    IN  IF ~grad_enabled THEN [args |-> args, kwargs |-> kwargs, ctx |-> <<>>]
        ELSE IF Len(inp_tensors) = 0
        THEN [args |-> args, kwargs |-> kwargs, ctx |-> <<>>]
        ELSE [args |-> tree_unflatten(args_list, a.spec),
              kwargs |-> tree_unflatten(kwargs_list, kw.spec),
              ctx |-> <<applied.ctx>>]

\* the gradient None
NoneGrad == [grad_of_output |-> 0]

\* the gradients autograd gives to the backward of a node with n outputs:
\* one for each output, or None for an output that got no gradient
GradsFor(n) ==
    {[k \in 1..n |-> [grad_of_output |-> k]],
     [k \in 1..n |-> IF k = 1 THEN NoneGrad ELSE [grad_of_output |-> k]]}

\* a backward that calls _post_backward twice
RegisterPostBackwardHook_backward_twice(w, ctx, grads) ==
    [w |-> _post_backward(hook_backward(w, ctx.param_group), ctx.param_group),
     grad_inputs |-> <<NoneGrad>> \o grads]

\* RegisterPostBackwardHook.backward (lines 321-324): the world it leaves
\* and the gradients it returns for (param_group, *inputs)
RegisterPostBackwardHook_backward(w, ctx, grads) ==
    [w |-> hook_backward(w, ctx.param_group),
     grad_inputs |-> <<NoneGrad>> \o grads]

\* the state after a step of the forward and backward that hook_call
\* follows: world w and the record c
CommitHook(w, c) ==
    /\ training_state' = w.training_state
    /\ sharded_state' = w.sharded_state
    /\ param_state' = w.param_state
    /\ all_gather_result' = w.all_gather_result
    /\ rs_event' = w.rs_event
    /\ grad' = w.grad
    /\ hooks' = w.hooks
    /\ all_gather_state' = w.all_gather_state
    /\ launched' = LaunchedAfter(w.log)
    /\ raised' = w.raised
    /\ hook_call' = <<c>>
    /\ UNCHANGED <<current_stream, streams, program, done, mesh_info,
                   grad_divide_factors, construction, setup>>

\* a module wrapped as one group is about to run its forward with args and
\* kwargs, gradient mode enabled or not
InitHook ==
    /\ FieldsAfterInit
    /\ mesh_info = TrainingMesh
    /\ grad_divide_factors = <<_init_grad_divide_factors(mesh_info)>>
    /\ construction = <<>>
    /\ \E args \in ArgsTrees, kwargs \in KwargsTrees, grad_enabled \in BOOLEAN :
           hook_call = <<[pc |-> "pre_forward", group |-> 1,
                          grad_enabled |-> grad_enabled,
                          args |-> args, kwargs |-> kwargs,
                          returned |-> <<>>, ctx |-> <<>>,
                          grads |-> <<>>, grad_inputs |-> <<>>]>>

\* pre_forward(module, args, kwargs) (lines 149-157): the group's
\* pre_forward, and the args and kwargs it returns
HookPreForward ==
    /\ hook_call[1].pc = "pre_forward"
    /\ LET c == hook_call[1]
           r == _register_post_backward_hook_return(c.group, c.args, c.kwargs,
                                                    c.grad_enabled)
           requires_grad == Len(InpTensorIndices(tree_leaves(c.args)
                                                 \o tree_leaves(c.kwargs))) > 0
       IN  CommitHook(pre_forward(World, c.group, c.grad_enabled, requires_grad),
                      [c EXCEPT !.pc = "post_forward",
                                !.returned = <<[args |-> r.args, kwargs |-> r.kwargs]>>,
                                !.ctx = r.ctx])

HookPostForward ==
    /\ hook_call[1].pc = "post_forward"
    /\ CommitHook(post_forward(World, hook_call[1].group),
                  [hook_call[1] EXCEPT !.pc = "pre_backward"])

HookPreBackward ==
    /\ hook_call[1].pc = "pre_backward"
    /\ CommitHook(pre_backward(World, hook_call[1].group),
                  [hook_call[1] EXCEPT !.pc = "backward"])

\* the backward of the module runs: autograd accumulates the gradients of
\* the parameters of the group
HookAccumulateGrad ==
    /\ hook_call[1].pc = "backward"
    /\ \E p \in Params(hook_call[1].group) : ~grad[hook_call[1].group][p]
    /\ CommitHook(accumulate_grads(World, hook_call[1].group,
                                   Params(hook_call[1].group)),
                  hook_call[1])

\* autograd runs the backward of the hook node with the gradients of its
\* outputs
HookNodeBackward(grads) ==
    /\ hook_call[1].pc = "backward"
    /\ hook_call[1].ctx # <<>>
    /\ LET c == hook_call[1]
           b == RegisterPostBackwardHook_backward(World, c.ctx[1], grads)
       IN  CommitHook(b.w, [c EXCEPT !.pc = "finalize", !.grads = grads,
                                     !.grad_inputs = b.grad_inputs])

\* the root's finalize_backward ends the backward pass
HookFinalizeBackward ==
    /\ \/ hook_call[1].pc = "finalize"
       \/ hook_call[1].pc = "backward" /\ hook_call[1].ctx = <<>>
    /\ CommitHook(finalize_backward(World, hook_call[1].group),
                  [hook_call[1] EXCEPT !.pc = "done"])

NextHook ==
    \/ HookPreForward
    \/ HookPostForward
    \/ HookPreBackward
    \/ HookAccumulateGrad
    \/ \E n \in 1..(MaxArgs * (MaxNested + 1) + MaxKwargs) :
           \E grads \in GradsFor(n) :
               /\ hook_call[1].returned # <<>>
               /\ n = Len(InpTensorIndices(tree_leaves(hook_call[1].args)
                                           \o tree_leaves(hook_call[1].kwargs)))
               /\ HookNodeBackward(grads)
    \/ HookFinalizeBackward

SpecHook == InitHook /\ [][NextHook]_vars

\* ----------------------------------------------------------------- claims
\* how many effects of kind `kind` a log holds
Count(lg, kind) == Cardinality({i \in 1..Len(lg) : lg[i].kind = kind})

\* the positions of the effects of kind `kind` in a log
Positions(lg, kind) == {i \in 1..Len(lg) : lg[i].kind = kind}

\* the program state of a world, without its log
StateOf(w) ==
    <<w.training_state, w.sharded_state, w.param_state, w.all_gather_result,
      w.rs_event, w.grad, w.hooks, w.all_gather_state, w.raised,
      w.current_stream>>

\* world w after autograd has accumulated the gradients of the parameters S of g
RECURSIVE WithGrads(_, _, _)
WithGrads(w, g, S) ==
    IF S = {} THEN w
    ELSE LET p == CHOOSE q \in S : TRUE
         IN  WithGrads(accumulate_grad(w, g, p), g, S \ {p})

\* C1: a training step of a group that starts from IDLE and runs pre_forward,
\* post_forward, pre_backward, post_backward (the hook) and
\* finalize_backward in that order leaves the training state FORWARD, IDLE,
\* PRE_BACKWARD, POST_BACKWARD, IDLE after the respective call (whatever
\* gradients autograd accumulates before the hook), and the training state
\* is always one of the four values.
C1_StepStates(g, S) ==
    LET w1 == pre_forward(World, g, TRUE, TRUE)
        w2 == post_forward(w1, g)
        w3 == pre_backward(w2, g)
        w4 == hook_backward(WithGrads(w3, g, S), g)
        w5 == finalize_backward(w4, g)
    IN  <<w1.training_state[g], w2.training_state[g], w3.training_state[g],
          w4.training_state[g], w5.training_state[g]>>

C1_TrainingStateSequence ==
    \A g \in Groups :
        /\ training_state[g] \in TrainingState
        /\ (~raised /\ training_state[g] = "IDLE") =>
               \A S \in SUBSET Params(g) :
                   C1_StepStates(g, S) =
                       <<"FORWARD", "IDLE", "PRE_BACKWARD", "POST_BACKWARD", "IDLE">>

\* a group that is IDLE and SHARDED after an earlier forward (the holder
\* keeps a published result) runs the five calls of a step, with gradients
\* on all its parameters
C1_Witness ==
    \E g \in Groups :
        /\ training_state[g] = "IDLE"
        /\ sharded_state[g] = "SHARDED"
        /\ all_gather_state # <<>>
        /\ C1_StepStates(g, Params(g)) =
               <<"FORWARD", "IDLE", "PRE_BACKWARD", "POST_BACKWARD", "IDLE">>

\* C2: after finalize_backward, from every reachable state of the group, the
\* group and each of its parameters is SHARDED, the training state is IDLE
\* and _reduce_scatter_view_out_event is None.
C2_AfterFinalize ==
    ~raised =>
    \A g \in Groups :
        LET w == finalize_backward(World, g) IN
        /\ w.sharded_state[g] = "SHARDED"
        /\ \A p \in Params(g) : w.param_state[g][p] = "SHARDED"
        /\ w.training_state[g] = "IDLE"
        /\ w.rs_event[g] = <<>>

\* finalize_backward is reached with the group UNSHARDED, gradients on its
\* parameters and no hook left to fire
C2_Witness ==
    \E g \in Groups :
        /\ sharded_state[g] = "UNSHARDED"
        /\ hooks[g] = 0
        /\ \E p \in Params(g) : grad[g][p]
        /\ finalize_backward(World, g).sharded_state[g] = "SHARDED"

OpResults(g) ==
    {unshard(World, g, a) : a \in BOOLEAN}
    \cup {pre_forward(World, g, a, b) : a \in BOOLEAN, b \in BOOLEAN}
    \cup {wait_for_unshard(World, g), reshard(World, g), post_forward(World, g),
          pre_backward(World, g), _post_backward(World, g),
          finalize_backward(World, g)}

\* C4: the group's sharded state is SHARDED or UNSHARDED and is the sharded
\* state of each of its parameters whenever a group operation has returned,
\* and an operation calls to_sharded (to_unsharded) on the parameters only
\* when it takes the group from UNSHARDED to SHARDED (SHARDED to UNSHARDED).
C4_GroupStateMatchesParams ==
    \A g \in Groups :
        /\ sharded_state[g] \in ShardedState
        /\ \A p \in Params(g) : param_state[g][p] = sharded_state[g]
        /\ \A w \in OpResults(g) :
               /\ \A p \in Params(g) : w.param_state[g][p] = w.sharded_state[g]
               /\ Count(w.log, "to_sharded") > 0 =>
                      sharded_state[g] = "UNSHARDED" /\ w.sharded_state[g] = "SHARDED"
               /\ Count(w.log, "to_unsharded") > 0 =>
                      sharded_state[g] = "SHARDED" /\ w.sharded_state[g] = "UNSHARDED"

\* a group that has been unsharded, on which reshard is called twice
C4_Witness ==
    \E g \in Groups :
        /\ sharded_state[g] = "UNSHARDED"
        /\ \A p \in Params(g) : param_state[g][p] = "UNSHARDED"
        /\ Count(reshard(World, g).log, "to_sharded") = Cardinality(Params(g))
        /\ Count(reshard(reshard(World, g), g).log, "to_sharded") = Cardinality(Params(g))

\* the worlds pre_forward and pre_backward return when called on group g in
\* world w
PreResults(w, g) ==
    {pre_forward(w, g, a, b) : a \in BOOLEAN, b \in BOOLEAN} \cup {pre_backward(w, g)}

\* C5: after pre_forward and after pre_backward, from every reachable state
\* of the group, the group is UNSHARDED and _all_gather_result is None; when
\* the group was SHARDED the call has issued one copy-out of the group's
\* all-gather result on the current stream, after any all-gather it launched.
C5_UnshardedAfterPre ==
    ~raised =>
    \A g \in Groups : \A w \in PreResults(World, g) :
        /\ ~w.raised
        /\ w.sharded_state[g] = "UNSHARDED"
        /\ w.all_gather_result[g] = <<>>
        /\ sharded_state[g] = "SHARDED" =>
               /\ Count(w.log, "copy_out") = 1
               /\ \A i \in Positions(w.log, "copy_out") :
                      /\ w.log[i].og = g /\ w.log[i].stream = "current_stream"
                      /\ \A j \in Positions(w.log, "all_gather") : j < i

\* pre_backward of a SHARDED group whose all-gather was explicitly prefetched
C5_Witness ==
    \E g \in Groups :
        /\ sharded_state[g] = "SHARDED"
        /\ all_gather_result[g] # <<>>
        /\ training_state[g] = "IDLE"
        /\ pre_backward(World, g).sharded_state[g] = "UNSHARDED"
        /\ pre_backward(World, g).all_gather_result[g] = <<>>

\* C6: unshard launches one all-gather and stores its result exactly when
\* the group is SHARDED and no result is pending, changing nothing else;
\* otherwise it has no effect and changes no state, for either async_op, and
\* so a second unshard with any async_op after a launch is a no-op.
C6_UnshardLaunchesIff ==
    \A g \in Groups : \A async_op \in BOOLEAN :
        LET w == unshard(World, g, async_op) IN
        /\ (sharded_state[g] = "SHARDED" /\ all_gather_result[g] = <<>>) =>
               /\ Len(w.log) = 1 /\ w.log[1].kind = "all_gather"
               /\ w.log[1].og = g /\ w.log[1].flag = async_op
               /\ w.all_gather_result[g] = <<[g |-> g]>>
               /\ StateOf([w EXCEPT !.all_gather_result[g] = <<>>]) = StateOf(World)
        /\ ~(sharded_state[g] = "SHARDED" /\ all_gather_result[g] = <<>>) => w = World
        /\ \A other \in BOOLEAN : unshard(w, g, other) = w

\* unshard, with either async_op, on a group whose all-gather is pending
C6_Witness ==
    \E g \in Groups :
        /\ all_gather_result[g] # <<>>
        /\ training_state[g] = "PRE_BACKWARD"
        /\ unshard(World, g, TRUE) = World
        /\ unshard(World, g, FALSE) = World

\* C7: when a result is pending (an explicit unshard preceded), pre_forward
\* and pre_backward launch no all-gather and copy out the pending result
\* once; an explicit unshard of a SHARDED group followed by pre_forward or
\* pre_backward launches one all-gather in all, the scheduler's, and its
\* copy-out follows it.
C7_ExplicitPrefetch ==
    ~raised =>
    \A g \in Groups :
        /\ all_gather_result[g] # <<>> =>
               \A w \in PreResults(World, g) :
                   /\ Count(w.log, "all_gather") = 0
                   /\ Count(w.log, "copy_out") = 1
                   /\ \A i \in Positions(w.log, "copy_out") : w.log[i].og = g
                   /\ w.all_gather_result[g] = <<>>
        /\ (sharded_state[g] = "SHARDED" /\ all_gather_result[g] = <<>>) =>
               \A async_op \in BOOLEAN :
                   \A w \in PreResults(unshard(World, g, async_op), g) :
                       /\ Count(w.log, "all_gather") = 1
                       /\ Count(w.log, "copy_out") = 1
                       /\ w.log[1].kind = "all_gather" /\ w.log[1].flag = async_op
                       /\ \A i \in Positions(w.log, "copy_out") : i > 1 /\ w.log[i].og = g

\* a scheduler has called unshard on a SHARDED group after its forward, and
\* the group's pre_backward comes next
C7_Witness ==
    \E g \in Groups :
        /\ all_gather_result[g] # <<>>
        /\ sharded_state[g] = "SHARDED"
        /\ training_state[g] = "IDLE"
        /\ all_gather_state # <<>> /\ all_gather_state[1].all_gather_result.g = g
        /\ Count(pre_backward(World, g).log, "all_gather") = 0
        /\ Count(pre_backward(World, g).log, "copy_out") = 1

\* C8: wait_for_unshard with no pending result has no effect and changes no
\* state, in every training state; so has a second consecutive call.
C8_WaitWithoutPending ==
    ~raised =>
    \A g \in Groups :
        /\ all_gather_result[g] = <<>> => wait_for_unshard(World, g) = World
        /\ LET w == wait_for_unshard(World, g) IN wait_for_unshard(w, g) = w

\* wait_for_unshard in FORWARD with no pending result while the holder
\* holds a published result
C8_Witness ==
    \E g \in Groups :
        /\ training_state[g] = "FORWARD"
        /\ all_gather_result[g] = <<>>
        /\ all_gather_state # <<>>
        /\ wait_for_unshard(World, g) = World

\* C9: the holder shared by the groups never holds more than one entry, no
\* put on it is rejected, and every put of an operation follows a pop of the
\* same operation with no other put in between.
C9_HolderSingleSlot ==
    /\ Len(all_gather_state) <= 1
    /\ ~raised =>
       \A g \in Groups : \A w \in OpResults(g) \cup {hook_backward(World, g)} :
           \* the one exception an operation raises is that of post_backward
           \* on a group that is not UNSHARDED, which leaves the holder alone
           /\ w.raised =>
                  /\ w \in {_post_backward(World, g), hook_backward(World, g)}
                  /\ sharded_state[g] # "UNSHARDED"
                  /\ w.all_gather_state = all_gather_state
                  /\ Count(w.log, "holder_pop") = 0
           /\ Len(w.all_gather_state) <= 1
           /\ \A i \in Positions(w.log, "holder_put") :
                  \E j \in Positions(w.log, "holder_pop") :
                      /\ j < i
                      /\ \A k \in Positions(w.log, "holder_put") : ~(j < k /\ k < i)

\* the holder holds the result of one group, whose forward is over, when
\* the forward of the other group begins
C9_Witness ==
    \E g \in Groups : \E g2 \in Groups \ {g} :
        /\ all_gather_state # <<>> /\ all_gather_state[1].all_gather_result.g = g
        /\ training_state[g] = "IDLE" /\ hooks[g] > 0
        /\ sharded_state[g2] = "SHARDED" /\ all_gather_result[g2] = <<>>
        /\ LET w == pre_forward(World, g2, TRUE, TRUE) IN
           /\ Count(w.log, "holder_pop") = 1 /\ Count(w.log, "holder_put") = 1
           /\ w.all_gather_state[1].all_gather_result.g = g2

\* C10: finalize_backward on a group that is still UNSHARDED runs
\* post_backward once: the group is resharded, the gradients on the
\* unsharded parameters are given to one reduce-scatter, and the event of
\* that reduce-scatter is waited on afterwards and cleared in the same call.
C10_FinalizeFallback ==
    ~raised =>
    \A g \in Groups :
        sharded_state[g] = "UNSHARDED" =>
            LET w == finalize_backward(World, g)
                with_grad == ParamsWithGradFrom(World, g, 1)
            IN  /\ Count(w.log, "post_backward") = 1
                /\ w.sharded_state[g] = "SHARDED"
                /\ Count(w.log, "to_sharded") = Cardinality(Params(g))
                /\ \A p \in Params(g) : ~w.grad[g][p]
                /\ w.rs_event[g] = <<>>
                /\ Count(w.log, "reduce_scatter") = (IF with_grad = <<>> THEN 0 ELSE 1)
                /\ \A i \in Positions(w.log, "reduce_scatter") :
                       /\ w.log[i].ps = with_grad
                       /\ \E j \in Positions(w.log, "wait_event") :
                              /\ j > i
                              /\ w.log[j].stream2 = "reduce_scatter"
                              /\ w.log[j].og = g

\* the forward inputs required no gradient: no hook is registered, the
\* backward has accumulated a gradient and the group is still UNSHARDED
C10_Witness ==
    \E g \in Groups :
        /\ sharded_state[g] = "UNSHARDED"
        /\ training_state[g] = "PRE_BACKWARD"
        /\ hooks[g] = 0
        /\ \E p \in Params(g) : grad[g][p]
        /\ Count(finalize_backward(World, g).log, "reduce_scatter") = 1

\* the worlds of a backward pass of group g whose forward registered a hook:
\* after pre_backward and the hook's backward (autograd has accumulated the
\* gradients of the parameters S in between), and after the finalize_backward
\* that follows, whose log starts empty
C11_BackwardPass(g, S) ==
    LET w1 == pre_backward(World, g)
        w2 == hook_backward(WithGrads(w1, g, S), g)
        w3 == finalize_backward([w2 EXCEPT !.log = <<>>], g)
    IN  <<w2, w3>>

\* C11: for a group whose forward registered the hook (its inputs required
\* gradient), a backward pass runs post_backward exactly once: the hook's
\* backward runs it once and leaves the group SHARDED, the finalize_backward
\* that follows does not run it again, and the pass launches at most one
\* reduce-scatter (exactly one when autograd accumulated a gradient).
C11_PostBackwardOnce ==
    ~raised =>
    \A g \in Groups :
        hooks[g] = 1 =>
            \A S \in SUBSET Params(g) :
                LET w2 == C11_BackwardPass(g, S)[1]
                    w3 == C11_BackwardPass(g, S)[2]
                IN  /\ Count(w2.log, "post_backward") = 1
                    /\ w2.sharded_state[g] = "SHARDED"
                    /\ w2.hooks[g] = 0
                    /\ Count(w3.log, "post_backward") = 0
                    /\ Count(w3.log, "reduce_scatter") = 0
                    /\ Count(w2.log, "reduce_scatter") <= 1
                    /\ S # {} => Count(w2.log, "reduce_scatter") = 1

\* the hook of a group has fired in its backward with a gradient present:
\* the group is SHARDED in POST_BACKWARD with its reduce-scatter event set,
\* and finalize_backward comes next
C11_Witness ==
    \E g \in Groups :
        /\ training_state[g] = "POST_BACKWARD"
        /\ sharded_state[g] = "SHARDED"
        /\ rs_event[g] # <<>>
        /\ hooks[g] = 0
        /\ Count(finalize_backward(World, g).log, "post_backward") = 0
        /\ Count(finalize_backward(World, g).log, "wait_event") = 1

\* the world at the test of line 204 of finalize_backward called on group g
\* in the current state: after the fallback call of _post_backward, if any
C12_AtEventTest(g) ==
    IF sharded_state[g] = "UNSHARDED" THEN _post_backward(World, g) ELSE World

\* C12: when a reduce-scatter event exists, finalize_backward issues one
\* stream wait, on that event, by the stream the group stored as
\* default_stream at construction, and then sets the event to None; when no
\* event exists it issues no stream wait.
C12_FinalizeWaitsOnDefaultStream ==
    \A g \in Groups :
        LET w == finalize_backward(World, g)
            waits == Positions(w.log, "wait_event")
        IN  /\ C12_AtEventTest(g).rs_event[g] # <<>> =>
                   /\ Cardinality(waits) = 1
                   /\ \A i \in waits :
                          /\ w.log[i].stream2 = "reduce_scatter" /\ w.log[i].og = g
                          /\ StreamObject(w, w.log[i].stream) = StreamAttr("default_stream")
                   /\ w.rs_event[g] = <<>>
            /\ C12_AtEventTest(g).rs_event[g] = <<>> => waits = {}

\* a backward pass of group g in world w0, unsharded by pre_backward, in
\* which post_backward runs twice before finalize_backward (the module ran
\* forward twice): post_backward with the gradients of S1 accumulated, the
\* group unsharded again by pre_backward, post_backward with the gradients of
\* S2 accumulated, then finalize_backward
C13_Pass(w0, g, S1, S2) ==
    LET w1 == _post_backward(WithGrads(w0, g, S1), g)
        w2 == pre_backward(w1, g)
        w3 == _post_backward(WithGrads(w2, g, S2), g)
    IN  finalize_backward(w3, g)

\* the default stream of group g waits, at a position of the log of w after
\* i, for the event of a reduce-scatter of g
C13_DefaultStreamWaits(w, g, i) ==
    \E k \in Positions(w.log, "wait_event") :
        /\ k > i
        /\ w.log[k].og = g /\ w.log[k].stream2 = "reduce_scatter"
        /\ w.log[k].on = w.streams["default_stream"]

\* the reduce-scatter at position i of the log of w is observed complete by
\* the default stream of group g: it ran on the default stream itself, or a
\* later effect makes the default stream wait for the event g stores, which
\* was recorded after the last reduce-scatter of g before the wait, on the
\* stream of reduce-scatter i
C13_Observed(w, g, i) ==
    \/ w.log[i].on = w.streams["default_stream"]
    \/ \E k \in Positions(w.log, "wait_event") :
           /\ k > i
           /\ w.log[k].og = g /\ w.log[k].stream2 = "reduce_scatter"
           /\ w.log[k].on = w.streams["default_stream"]
           /\ \A j \in Positions(w.log, "reduce_scatter") :
                  (i <= j /\ j < k) => w.log[j].on = w.log[i].on

\* C13: every reduce-scatter that post_backward launched for a group since
\* its previous finalize_backward is observed complete by the group's
\* default stream once finalize_backward has run, also when post_backward
\* ran twice with gradients and the first event was overwritten; no event is
\* left or dropped without the default stream ordered after its
\* reduce-scatter, however the caller configured the four streams.
C13_ReduceScatterObserved ==
    \A g \in Groups : \A cfg \in StreamConfigs :
        LET w0 == [World EXCEPT !.streams = cfg] IN
        /\ (sharded_state[g] = "UNSHARDED" /\ training_state[g] = "PRE_BACKWARD") =>
               \A S1 \in SUBSET Params(g) : \A S2 \in SUBSET Params(g) :
                   LET w == C13_Pass(w0, g, S1, S2) IN
                   /\ \A i \in Positions(w.log, "reduce_scatter") : C13_Observed(w, g, i)
                   /\ w.rs_event[g] = <<>>
        /\ rs_event[g] # <<>> =>
               LET w == finalize_backward(w0, g) IN
               /\ \/ cfg["reduce_scatter_stream"] = cfg["default_stream"]
                  \/ C13_DefaultStreamWaits(w, g, 0)
               /\ w.rs_event[g] = <<>>

RECURSIVE IsPowerOfTwo(_)
IsPowerOfTwo(n) == n = 1 \/ (n > 1 /\ n % 2 = 0 /\ IsPowerOfTwo(n \div 2))

\* the powers of two up to n
PowersOfTwo(n) == {F \in 1..n : IsPowerOfTwo(F)}

\* the powers of two F with W % F == 0 and W / F > F
Satisfying(W) == {F \in PowersOfTwo(2 * W) : W % F = 0 /\ W > F * F}

\* C14: for every mesh, of data-parallel world size W >= 1 (the shard size,
\* times the replicate size for an HSDP mesh), the factors stored by
\* _init_grad_divide_factors satisfy pre * post == W: the float product is
\* float(W), and no rounding is involved.
C14_FactorsMultiplyToWorldSize ==
    grad_divide_factors # <<>> =>
        LET W == data_parallel_world_size(mesh_info)
            f == grad_divide_factors[1]
        IN  /\ W = (IF mesh_info.kind = "HSDPMeshInfo"
                    THEN mesh_info.shard_mesh_size * mesh_info.replicate_mesh_size
                    ELSE mesh_info.shard_mesh_size)
            /\ FloatMul(f.pre, f.post) = Float(W)
            /\ f.pre * f.post = Float(W) * Scale

\* the factors of an HSDP mesh of 3 x 2 workers: pre is 4 and post is 1.5
C14_Witness ==
    /\ grad_divide_factors # <<>>
    /\ mesh_info.kind = "HSDPMeshInfo"
    /\ mesh_info.shard_mesh_size = 3 /\ mesh_info.replicate_mesh_size = 2
    /\ grad_divide_factors[1].pre = Float(4)
    /\ 2 * grad_divide_factors[1].post = Float(3)

\* C15 as claimed: the pre-divide factor is the largest power of two F with
\* W % F == 0 and W / F > F, and the post-divide factor is W / F.
C15_LargestSatisfying ==
    grad_divide_factors # <<>> =>
        LET W == data_parallel_world_size(mesh_info)
            f == grad_divide_factors[1]
        IN  \E F \in Satisfying(W) :
                /\ \A F2 \in Satisfying(W) : F2 <= F
                /\ f.pre = Float(F)
                /\ f.post = FloatDiv(Float(W), Float(F))

\* C15, amended: the pre-divide factor is the smallest power of two F for
\* which "W % F == 0 and W / F > F" is false, that is 1 for W = 1 and
\* otherwise twice the largest power of two for which it is true; the
\* post-divide factor is W / F, exactly.
C15_SmallestFailing ==
    grad_divide_factors # <<>> =>
        LET W == data_parallel_world_size(mesh_info)
            f == grad_divide_factors[1]
            Failing == PowersOfTwo(2 * W) \ Satisfying(W)
        IN  \E F \in Failing :
                /\ \A F2 \in Failing : F <= F2
                /\ f.pre = Float(F)
                /\ f.post * F = Float(W)
                /\ Satisfying(W) = {} => (W = 1 /\ F = 1)
                /\ \A F1 \in Satisfying(W) :
                       (\A F2 \in Satisfying(W) : F2 <= F1) => F = 2 * F1

\* the factors of 12 workers: the loop leaves at 4, where 12 / 4 > 4 fails,
\* while 2 is the largest power of two for which the test holds
C15_Witness ==
    /\ grad_divide_factors # <<>>
    /\ data_parallel_world_size(mesh_info) = 12
    /\ grad_divide_factors[1] = [pre |-> Float(4), post |-> Float(3)]
    /\ 2 \in Satisfying(12) /\ 4 \notin Satisfying(12)

\* the reduce-scatter effects of a post_backward of group g with the
\* gradients of S accumulated, from the state after construction
C16_ReduceScatters(g, S) ==
    LET w == _post_backward(WithGrads(pre_backward(World, g), g, S), g)
    IN  {w.log[i] : i \in Positions(w.log, "reduce_scatter")}

\* C16: for every mesh, the gradient that post_backward produces is the mean
\* over the W data-parallel workers: the reduce-scatter it launches sums the
\* gradients of as many workers (the size of the process group it is given)
\* as the product of the two factors it divides by, and that product is W.
C16_MeanOverAllWorkers ==
    grad_divide_factors # <<>> =>
        \A g \in GroupsInUse : \A S \in SUBSET Params(g) \ {{}} :
            /\ C16_ReduceScatters(g, S) # {}
            /\ \A e \in C16_ReduceScatters(g, S) :
                   /\ FloatMul(e.pre_factor, e.post_factor) =
                          Float(data_parallel_world_size(mesh_info))
                   /\ Float(process_group_size(mesh_info, e.group)) =
                          FloatMul(e.pre_factor, e.post_factor)

\* the worlds after post_forward and after the pre_backward that follows it
\* (whose log starts empty), for a group g whose forward is running
C17_AfterForward(g) ==
    LET w1 == post_forward(World, g)
        w2 == pre_backward([w1 EXCEPT !.log = <<>>], g)
    IN  <<w1, w2>>

\* C17: the flag reshard_after_forward given to fully_shard selects what
\* post_forward does to a group whose forward has run: when it is true the
\* group is resharded and pre_backward launches a second all-gather; when
\* it is false the group stays UNSHARDED through post_forward until
\* post_backward and pre_backward launches no all-gather.
C17_ReshardAfterForwardSelects ==
    \A g \in Groups : \A reshard_after_forward \in BOOLEAN :
        (/\ training_state[g] = "FORWARD" /\ sharded_state[g] = "UNSHARDED"
         /\ all_gather_result[g] = <<>>) =>
            LET w1 == C17_AfterForward(g)[1]
                w2 == C17_AfterForward(g)[2]
            IN  /\ reshard_after_forward =>
                       /\ w1.sharded_state[g] = "SHARDED"
                       /\ Count(w2.log, "all_gather") = 1
                /\ ~reshard_after_forward =>
                       /\ w1.sharded_state[g] = "UNSHARDED"
                       /\ Count(w2.log, "all_gather") = 0
                /\ w2.sharded_state[g] = "UNSHARDED"

\* the dtypes of the parameters of the params list of construction c
ListDtypes(c) == {c.dtype[c.params[i]] : i \in 1..Len(c.params)}

\* the bindings of parameter q that the traversal of the module tree of c
\* visits, in traversal order
BindingsOf(c, q) == SelectSeq(TraversalFrom(c.module, 1), LAMBDA b : b.param = q)

\* parameter q is a direct parameter of a submodule of the module tree of c
Reachable(c, q) == BindingsOf(c, q) # <<>>

\* C18: a construction gets past _init_mp_dtypes only if the parameters of
\* its list have exactly one distinct dtype, and then _orig_dtype and
\* _param_dtype are that dtype; _init_mp_dtypes raises exactly when the
\* number of distinct dtypes is not one: two or more, or none (empty list).
C18_UniformDtype ==
    construction # <<>> =>
        LET c == construction[1] IN
        /\ c.pc = "mp_dtypes" =>
               /\ Cardinality(ListDtypes(c)) = 1
               /\ \A i \in 1..Len(c.params) : c.dtype[c.params[i]] = c.orig_dtype
               /\ c.param_dtype = c.orig_dtype
               /\ c.params # <<>>
        /\ (c.pc = "raised" /\ c.error = "dtype") => Cardinality(ListDtypes(c)) # 1
        /\ c.pc = "fsdp_params" =>
               /\ Cardinality(ListDtypes(c)) >= 2 => _init_mp_dtypes(c.fsdp_params).raised
               /\ c.params = <<>> => _init_mp_dtypes(c.fsdp_params).raised
               /\ Cardinality(ListDtypes(c)) = 1 => ~_init_mp_dtypes(c.fsdp_params).raised

\* _init_mp_dtypes has rejected a list of two parameters of different dtypes,
\* both of them in the module tree
C18_Witness ==
    /\ construction # <<>>
    /\ construction[1].pc = "raised" /\ construction[1].error = "dtype"
    /\ Len(construction[1].params) = 2
    /\ Cardinality(ListDtypes(construction[1])) = 2
    /\ Len(construction[1].fsdp_params) = 2

\* an info names a binding of parameter q in the module tree of c
InfoBinds(c, info, q) ==
    \E i \in 1..Len(BindingsOf(c, q)) :
        /\ BindingsOf(c, q)[i].submodule = info.module
        /\ BindingsOf(c, q)[i].param_name = info.param_name

\* C19: when a parameter of the list is not a direct parameter of any
\* submodule of the module tree, _get_param_module_infos raises and the
\* construction ends with that error before any FSDPParam is created; when
\* every parameter is one and the list has no repeated parameter, it returns
\* one ParamModuleInfo per parameter, the i-th for the i-th parameter.
C19_UnreachableRejected ==
    construction # <<>> =>
        LET c == construction[1]
            r == _get_param_module_infos(c.params, c.module)
        IN  /\ (\E i \in 1..Len(c.params) : ~Reachable(c, c.params[i])) =>
                   /\ r.raised
                   /\ c.pc \in {"start", "raised"}
                   /\ c.pc = "raised" => c.error = "module_tree"
                   /\ c.fsdp_params = <<>>
            /\ (/\ \A i \in 1..Len(c.params) : Reachable(c, c.params[i])
                /\ \A i, j \in 1..Len(c.params) : c.params[i] = c.params[j] => i = j) =>
                   /\ ~r.raised
                   /\ Len(r.value) = Len(c.params)
                   /\ \A i \in 1..Len(c.params) : InfoBinds(c, r.value[i], c.params[i])
                   /\ c.error # "module_tree"
                   /\ c.pc \notin {"start", "raised"} => c.param_module_infos = r.value

\* a construction has been rejected whose list has a parameter of the
\* module tree followed by one that is not in it
C19_Witness ==
    /\ construction # <<>>
    /\ construction[1].pc = "raised" /\ construction[1].error = "module_tree"
    /\ Len(construction[1].params) = 2
    /\ Reachable(construction[1], construction[1].params[1])
    /\ ~Reachable(construction[1], construction[1].params[2])
    /\ construction[1].fsdp_params = <<>>

\* C20: a parameter of the list that the traversal meets under k >= 2
\* (submodule, name) pairs gets one ParamModuleInfo: its module and name are
\* the first pair, its shared_modules and shared_param_names the other k - 1
\* pairs in traversal order; the group holds one FSDPParam for it, so an
\* all-gather of the group's parameters gathers it once.
C20_SharedParameter ==
    construction # <<>> =>
        LET c == construction[1]
            r == _get_param_module_infos(c.params, c.module)
        IN  ~r.raised =>
                \A i \in 1..Len(c.params) :
                    LET occ == BindingsOf(c, c.params[i])
                        k == Len(occ)
                    IN  k >= 2 =>
                        /\ r.value[i].module = occ[1].submodule
                        /\ r.value[i].param_name = occ[1].param_name
                        /\ r.value[i].shared_modules =
                               [j \in 1..(k - 1) |-> occ[j + 1].submodule]
                        /\ r.value[i].shared_param_names =
                               [j \in 1..(k - 1) |-> occ[j + 1].param_name]
                        /\ Cardinality({j \in 1..Len(r.value) :
                                            c.params[j] = c.params[i]}) = 1
                        /\ c.pc \in {"fsdp_params", "mp_dtypes"} =>
                               /\ Len(c.fsdp_params) = Len(c.params)
                               /\ Cardinality({j \in 1..Len(c.fsdp_params) :
                                       c.fsdp_params[j].param = c.params[i]}) = 1
                               /\ c.fsdp_params[i].module_info = r.value[i]

\* a group has been constructed for a parameter that is the weight of the
\* root module and of a submodule that the traversal yields twice
C20_Witness ==
    /\ construction # <<>>
    /\ construction[1].pc = "mp_dtypes"
    /\ construction[1].module.named_modules = <<RootModule, SubModule, SubModule>>
    /\ Len(construction[1].fsdp_params) = 1
    /\ construction[1].fsdp_params[1].module_info =
           [module |-> RootModule, param_name |-> "weight",
            shared_modules |-> <<SubModule, SubModule>>,
            shared_param_names |-> <<"weight", "weight">>]

\* the last command of kind `kind` for group g enqueued before position i
LastBefore(prog, i, kind, g) ==
    LET cs == {j \in 1..(i - 1) : prog[j].kind = kind /\ prog[j].g = g}
    IN  {j \in cs : \A k \in cs : k <= j}

\* C21: in every execution order of the streams that respects the order of
\* each stream and the recorded event waits, a computation that reads the
\* unsharded parameters of a group executes after the all-gather and the
\* copy-out of those parameters (and the copy-out after the all-gather), and
\* a read of the sharded gradients on the default stream after
\* finalize_backward executes after their reduce-scatter.
C21_ReadsAfterCollectives ==
    \A i \in done :
        /\ program[i].kind = "compute" =>
               /\ LastBefore(program, i, "all_gather", program[i].g) # {}
               /\ LastBefore(program, i, "all_gather", program[i].g) \subseteq done
               /\ LastBefore(program, i, "copy_out", program[i].g) # {}
               /\ LastBefore(program, i, "copy_out", program[i].g) \subseteq done
        /\ program[i].kind = "copy_out" =>
               /\ LastBefore(program, i, "all_gather", program[i].g) # {}
               /\ LastBefore(program, i, "all_gather", program[i].g) \subseteq done
        /\ program[i].kind = "optimizer" =>
               /\ LastBefore(program, i, "reduce_scatter", program[i].g) # {}
               /\ LastBefore(program, i, "reduce_scatter", program[i].g) \subseteq done

\* C21 when the stream that is current during the step is the stream the
\* group stored as default_stream
C21_OnDefaultStream ==
    current_stream = streams["default_stream"] => C21_ReadsAfterCollectives

\* C21 for the reads of the unsharded parameters alone
C21_ComputeAfterUnshard ==
    \A i \in done :
        program[i].kind = "compute" =>
            /\ LastBefore(program, i, "all_gather", program[i].g) \subseteq done
            /\ LastBefore(program, i, "copy_out", program[i].g) \subseteq done

\* the state of the groups that the host can observe in world w
C22_HostVisible(w) ==
    <<w.sharded_state, w.param_state, w.training_state, w.all_gather_result,
      w.all_gather_state, [g \in Groups |-> w.rs_event[g] # <<>>], w.grad,
      w.hooks, w.raised>>

\* the collectives launched in a log, in order, without the streams they
\* were given
C22_Collectives(lg) ==
    LET cs == SelectSeq(lg, LAMBDA e : e.kind \in {"all_gather", "reduce_scatter"})
    IN  [i \in 1..Len(cs) |->
             [cs[i] EXCEPT !.on = "", !.on2 = "", !.stream = "", !.stream2 = ""]]

\* the configuration in which the four streams are the default stream
C22_Collapsed == [name \in StreamNames |-> ConstructionStream]

\* what a group operation leaves in world w: the host-visible state and
\* the collectives it launched
C22_Outcome(w) == <<C22_HostVisible(w), C22_Collectives(w.log)>>

\* what every group operation on group g leaves, from world w
C22_Outcomes(w, g) ==
    <<C22_Outcome(unshard(w, g, TRUE)), C22_Outcome(unshard(w, g, FALSE)),
      C22_Outcome(wait_for_unshard(w, g)), C22_Outcome(reshard(w, g)),
      C22_Outcome(pre_forward(w, g, TRUE, TRUE)),
      C22_Outcome(pre_forward(w, g, TRUE, FALSE)),
      C22_Outcome(pre_forward(w, g, FALSE, TRUE)),
      C22_Outcome(pre_forward(w, g, FALSE, FALSE)),
      C22_Outcome(post_forward(w, g)), C22_Outcome(pre_backward(w, g)),
      C22_Outcome(_post_backward(w, g)), C22_Outcome(finalize_backward(w, g))>>

\* C22: the four stream attributes of a constructed group are the stream
\* that was current at construction; and whatever streams the caller
\* configures (all four distinct, or any subset of the three communication
\* streams the default stream), every group operation, from every reachable
\* state, leaves the same host-visible state and launches the same
\* collectives in the same order as with all four collapsed to the default
\* stream, so every sequence of operations does.
C22_StreamCollapse ==
    /\ \A name \in StreamNames : streams[name] = ConstructionStream
    /\ ~raised =>
       \A g \in Groups :
           LET collapsed == C22_Outcomes([World EXCEPT !.streams = C22_Collapsed], g)
           IN  \A cfg \in StreamConfigs :
                   C22_Outcomes([World EXCEPT !.streams = cfg], g) = collapsed

\* pre_backward of a SHARDED group while the holder keeps the result of a
\* forward: with the four streams distinct the all-gather is given two
\* streams of its own, with all collapsed the default stream twice, and the
\* group is UNSHARDED either way
C22_Witness ==
    \E g \in Groups :
        /\ sharded_state[g] = "SHARDED" /\ all_gather_result[g] = <<>>
        /\ all_gather_state # <<>>
        /\ \A name \in StreamNames : streams[name] = current_stream
        /\ LET cfg == [name \in StreamNames |-> DedicatedStream(name)]
               a == pre_backward([World EXCEPT !.streams = cfg], g)
               b == pre_backward(World, g)
           IN  /\ cfg \in StreamConfigs
               /\ a.log[1].kind = "all_gather" /\ b.log[1].kind = "all_gather"
               /\ a.log[1].on = "cuda_stream_2" /\ a.log[1].on2 = "cuda_stream_3"
               /\ b.log[1].on = ConstructionStream /\ b.log[1].on2 = ConstructionStream
               /\ a.sharded_state[g] = "UNSHARDED" /\ b.sharded_state[g] = "UNSHARDED"

\* the waits of the implicit prefetch in a program: a wait for the copy-out
\* event of group K enqueued by the wait_for_unshard of another group
C23_HandoffWaits(prog) ==
    {k \in 1..Len(prog) : /\ prog[k].kind = "wait" /\ prog[k].ev = "copy_out"
                          /\ prog[k].by # prog[k].g}

\* C23: in forward with implicit prefetch, the copy-out of group K executes
\* before the computation that consumes the all-gather output of group
\* K + 1; the all-gather of group K + 1 (its copy-in and its collective) is
\* enqueued, by unshard, before the waits of the all-gather streams for the
\* copy-out event of group K, which the wait_for_unshard of group K + 1
\* enqueues, so it executes without waiting for them, and those waits come
\* before the copy-out of group K + 1.
C23_PrefetchOrdering ==
    /\ \A i \in done :
           program[i].kind = "compute" =>
               \A j \in 1..(i - 1) : program[j].kind = "copy_out" => j \in done
    /\ \A k \in C23_HandoffWaits(program) :
           LET next == program[k].by
               launch == LastBefore(program, k, "all_gather", next)
               copy_in == LastBefore(program, k, "copy_in", next)
           IN  /\ launch # {} /\ copy_in # {}
               /\ \A j \in launch \cup copy_in :
                      /\ j < k
                      /\ LastBefore(program, k, "copy_out", program[k].g) # {}
                      /\ \A c \in LastBefore(program, k, "copy_out", program[k].g) : c < j
                      /\ k \in done =>
                             (program[j].on = program[k].on => j \in done)
               /\ LastBefore(program, k, "copy_out", next) = {}
               /\ program[k].on \in {streams["all_gather_copy_in_stream"],
                                      streams["all_gather_stream"]}

\* the two groups have their own all-gather streams; the all-gather of the
\* second group has executed while the forward computation of the first
\* group and the waits for the copy-out event of the first group have not
C23_Witness ==
    /\ setup = "two_groups"
    /\ streams["all_gather_stream"] # streams["default_stream"]
    /\ \E j \in done : \E k \in C23_HandoffWaits(program) :
           /\ program[j].kind = "all_gather" /\ program[j].g = 2
           /\ j < k /\ k \notin done /\ program[k].g = 1 /\ program[k].by = 2
           /\ \E i \in 1..Len(program) :
                  /\ program[i].kind = "compute" /\ program[i].g = 1
                  /\ i < j /\ i \notin done

\* unshard, wait_for_unshard and reshard of group g in a row
C24_RoundTrip(g, async_op) ==
    reshard(wait_for_unshard(unshard(World, g, async_op), g), g)

C25_ParamPositions(lg, kind, p) ==
    {i \in 1..Len(lg) : lg[i].kind = kind /\ lg[i].id = p}

\* C25: wait_for_unshard with a pending result issues, each once and in
\* this order, the copy-out of the pending result, init_unsharded_param on
\* every parameter, the transition of the group (of every parameter) to
\* UNSHARDED, the record of the copy-out event on the current stream, and
\* last the clearing of _all_gather_result.  So _all_gather_result is
\* non-null only from an unshard that launched an all-gather to the end of
\* the next wait_for_unshard: only an operation that launches an all-gather
\* sets it, the group stays SHARDED while it is set, and it is None after
\* every wait_for_unshard.
C25_WaitForUnshardOrder ==
    ~raised =>
    \A g \in Groups :
        /\ all_gather_result[g] # <<>> =>
               LET w == wait_for_unshard(World, g)
                   lg == w.log
               IN  /\ sharded_state[g] = "SHARDED"
                   /\ Count(lg, "copy_out") = 1 /\ Count(lg, "record_event") = 1
                   /\ Count(lg, "clear_all_gather_result") = 1
                   /\ \A p \in Params(g) :
                          /\ Cardinality(C25_ParamPositions(lg, "init_unsharded_param", p)) = 1
                          /\ Cardinality(C25_ParamPositions(lg, "to_unsharded", p)) = 1
                   /\ \A c \in Positions(lg, "copy_out") :
                       \A i \in Positions(lg, "init_unsharded_param") :
                       \A u \in Positions(lg, "to_unsharded") :
                       \A r \in Positions(lg, "record_event") :
                       \A n \in Positions(lg, "clear_all_gather_result") :
                           /\ c < i /\ i < u /\ u < r /\ r < n
                           /\ lg[c].og = g /\ lg[c].stream = "current_stream"
                           /\ lg[r].og = g /\ lg[r].stream2 = "copy_out"
                           /\ lg[r].stream = "current_stream"
                           /\ lg[r].on = current_stream
                           /\ \A k \in (n + 1)..Len(lg) : lg[k].kind = "release"
                   /\ w.sharded_state[g] = "UNSHARDED"
                   /\ w.all_gather_result[g] = <<>>
        /\ wait_for_unshard(World, g).all_gather_result[g] = <<>>
        /\ \A w \in OpResults(g) \cup {hook_backward(World, g)} :
               /\ w.all_gather_result[g] # <<>> =>
                      \/ all_gather_result[g] # <<>>
                      \/ Count(w.log, "all_gather") = 1
               /\ (all_gather_result[g] # <<>> /\ w.all_gather_result[g] = <<>>) =>
                      Count(w.log, "clear_all_gather_result") = 1

\* wait_for_unshard in PRE_BACKWARD on the result of an all-gather that was
\* launched while another stream than the one of construction is current
C25_Witness ==
    \E g \in Groups :
        /\ all_gather_result[g] # <<>>
        /\ training_state[g] = "PRE_BACKWARD"
        /\ current_stream # ConstructionStream
        /\ Count(wait_for_unshard(World, g).log, "record_event") = 1
        /\ wait_for_unshard(World, g).all_gather_result[g] = <<>>
        /\ wait_for_unshard(World, g).sharded_state[g] = "UNSHARDED"

\* the positions in a log of the waits of stream `name` for the copy-out
\* event of the result of group K
C26_Waits(lg, name, K) ==
    {i \in Positions(lg, "wait_event") :
         lg[i].stream = name /\ lg[i].stream2 = "copy_out" /\ lg[i].og = K}

\* C26: wait_for_unshard with a pending result in FORWARD first pops the
\* holder; when an entry was held it makes all_gather_copy_in_stream and
\* all_gather_stream wait for that entry's event, then frees the entry, all
\* before its own copy-out; at the end it puts its own result and copy-out
\* event into the holder.  An entry of the holder is taken out only by such
\* a call: every other operation (reshard and post_forward of the group
\* that published it among them) leaves the holder as it is.
C26_ImplicitPrefetchHandoff ==
    ~raised =>
    \A g \in Groups :
        /\ (all_gather_result[g] # <<>> /\ training_state[g] = "FORWARD") =>
               LET w == wait_for_unshard(World, g)
                   lg == w.log
                   r == all_gather_result[g][1]
               IN  /\ ~w.raised
                   /\ lg[1].kind = "holder_pop" /\ Count(lg, "holder_pop") = 1
                   /\ Count(lg, "copy_out") = 1
                   /\ all_gather_state = <<>> =>
                          /\ Count(lg, "wait_event") = 0
                          /\ Count(lg, "release") = 0
                   /\ all_gather_state # <<>> =>
                          LET K == all_gather_state[1].all_gather_result.g IN
                          /\ all_gather_state[1].event = CopyOutEvent([g |-> K])
                          /\ Count(lg, "wait_event") = 2
                          /\ Cardinality(C26_Waits(lg, "all_gather_copy_in_stream", K)) = 1
                          /\ Cardinality(C26_Waits(lg, "all_gather_stream", K)) = 1
                          /\ Count(lg, "release") = 1
                          /\ \A x \in Positions(lg, "release") :
                                 /\ lg[x].og = K
                                 /\ \A i \in Positions(lg, "wait_event") : 1 < i /\ i < x
                                 /\ \A c \in Positions(lg, "copy_out") : x < c
                   /\ Count(lg, "holder_put") = 1
                   /\ \A x \in Positions(lg, "holder_put") :
                          /\ lg[x].og = g
                          /\ \A i \in Positions(lg, "record_event") : i < x
                          /\ \A i \in (x + 1)..Len(lg) :
                                 lg[i].kind = "clear_all_gather_result"
                   /\ w.all_gather_state =
                          <<[all_gather_result |-> r, event |-> CopyOutEvent(r)]>>
        /\ \A w \in OpResults(g) \cup {hook_backward(World, g)} :
               \/ /\ w.all_gather_state = all_gather_state
                  /\ Count(w.log, "holder_pop") = 0 /\ Count(w.log, "holder_put") = 0
               \/ /\ w.training_state[g] = "FORWARD"
                  /\ Count(w.log, "holder_pop") = 1 /\ Count(w.log, "holder_put") = 1
                  /\ Count(w.log, "copy_out") = 1
        /\ \A w \in {reshard(World, g), post_forward(World, g)} :
               /\ w.all_gather_state = all_gather_state
               /\ Count(w.log, "release") = 0

\* the forward of a group copies out its result while the holder keeps the
\* result that the other group published, whose forward is over
C26_Witness ==
    \E g \in Groups : \E K \in Groups \ {g} :
        /\ all_gather_result[g] # <<>> /\ training_state[g] = "FORWARD"
        /\ all_gather_state # <<>> /\ all_gather_state[1].all_gather_result.g = K
        /\ sharded_state[K] = "SHARDED" /\ training_state[K] = "IDLE"
        /\ LET w == wait_for_unshard(World, g) IN
           /\ Count(w.log, "release") = 1
           /\ w.all_gather_state[1].all_gather_result.g = g

\* in the log lg, before position x, stream `name` is made to wait for the
\* copy-out event of the result of group K, and that wait follows position y
C27_WaitBetween(lg, name, K, y, x) ==
    \E i \in Positions(lg, "wait_event") :
        /\ y < i /\ i < x
        /\ lg[i].stream = name /\ lg[i].stream2 = "copy_out" /\ lg[i].og = K

\* C27: in every training state, whenever an operation frees an all-gather
\* result (the pending one, or the one taken out of the holder), it has
\* before that made all_gather_copy_in_stream and all_gather_stream wait for
\* the copy-out event of that result; the event was recorded after the
\* copy-out of the result: in the same call after its copy-out, or, for an
\* entry of the holder, by the call that published it, which put the entry
\* after the record that followed its copy-out.
C27_ReleaseAfterWaits ==
    \A g \in Groups : \A w \in OpResults(g) \cup {hook_backward(World, g)} :
        LET lg == w.log IN
        /\ \A x \in Positions(lg, "release") :
               \/ \E c \in Positions(lg, "copy_out") :
                  \E r \in Positions(lg, "record_event") :
                      /\ lg[c].og = lg[x].og /\ lg[r].og = lg[x].og
                      /\ lg[r].stream2 = "copy_out"
                      /\ c < r /\ r < x
                      /\ lg[c].on = lg[r].on
                      /\ C27_WaitBetween(lg, "all_gather_copy_in_stream", lg[x].og, r, x)
                      /\ C27_WaitBetween(lg, "all_gather_stream", lg[x].og, r, x)
               \/ \E q \in Positions(lg, "holder_pop") :
                      /\ q < x /\ lg[q].og = lg[x].og
                      /\ all_gather_state # <<>>
                      /\ all_gather_state[1].all_gather_result.g = lg[x].og
                      /\ all_gather_state[1].event =
                             CopyOutEvent(all_gather_state[1].all_gather_result)
                      /\ C27_WaitBetween(lg, "all_gather_copy_in_stream", lg[x].og, q, x)
                      /\ C27_WaitBetween(lg, "all_gather_stream", lg[x].og, q, x)
        /\ \A x \in Positions(lg, "holder_put") :
               \E c \in Positions(lg, "copy_out") :
               \E r \in Positions(lg, "record_event") :
                   /\ lg[c].og = lg[x].og /\ lg[r].og = lg[x].og
                   /\ lg[r].stream2 = "copy_out"
                   /\ c < r /\ r < x
                   /\ lg[c].on = lg[r].on
        /\ (all_gather_result[g] # <<>> /\ w.all_gather_result[g] = <<>>) =>
               \/ Count(lg, "release") >= 1
               \/ /\ w.all_gather_state # <<>>
                  /\ w.all_gather_state[1].all_gather_result = all_gather_result[g][1]
                  /\ Count(lg, "holder_put") = 1

\* pre_backward frees the result of its own all-gather after its copy-out,
\* while the holder keeps the result of the forward
C27_Witness ==
    \E g \in Groups :
        /\ sharded_state[g] = "SHARDED" /\ all_gather_result[g] = <<>>
        /\ all_gather_state # <<>>
        /\ LET w == pre_backward(World, g) IN
           /\ Count(w.log, "release") = 1
           /\ Count(w.log, "wait_event") = 2
           /\ w.all_gather_state = all_gather_state

\* the all-gather effect of unshard(async_op) on group g when the caller has
\* configured the streams as cfg
C28_Launch(g, async_op, cfg) ==
    unshard([World EXCEPT !.streams = cfg], g, async_op).log[1]

\* C28: the streams of the all-gather that unshard launches are selected by
\* the training state of the group alone: in FORWARD and PRE_BACKWARD the
\* copy-in is given all_gather_copy_in_stream and the collective
\* all_gather_stream; in IDLE and POST_BACKWARD both are given the default
\* stream; whatever the state of the other group, the holder and the current
\* stream, and also for the all-gathers of pre_forward and pre_backward.
C28_StreamSelection ==
    \A g \in Groups : \A cfg \in StreamConfigs :
        (~raised /\ sharded_state[g] = "SHARDED" /\ all_gather_result[g] = <<>>) =>
            /\ \A async_op \in BOOLEAN :
                   LET e == C28_Launch(g, async_op, cfg) IN
                   /\ e.kind = "all_gather"
                   /\ training_state[g] \in {"FORWARD", "PRE_BACKWARD"} =>
                          /\ e.stream = "all_gather_copy_in_stream"
                          /\ e.stream2 = "all_gather_stream"
                          /\ e.on = cfg["all_gather_copy_in_stream"]
                          /\ e.on2 = cfg["all_gather_stream"]
                   /\ training_state[g] \in {"IDLE", "POST_BACKWARD"} =>
                          /\ e.stream = "default_stream" /\ e.stream2 = "default_stream"
                          /\ e.on = cfg["default_stream"]
                          /\ e.on2 = cfg["default_stream"]
            /\ \A w \in PreResults([World EXCEPT !.streams = cfg], g) :
                   /\ w.log[1].kind = "all_gather"
                   /\ w.log[1].on = cfg["all_gather_copy_in_stream"]
                   /\ w.log[1].on2 = cfg["all_gather_stream"]

\* an explicit prefetch of an IDLE group during the forward of the other
\* group, while another stream than the default stream is current: its
\* all-gather is given the default stream, not the all-gather streams
C28_Witness ==
    \E g \in Groups : \E g2 \in Groups \ {g} :
        /\ sharded_state[g] = "SHARDED" /\ all_gather_result[g] = <<>>
        /\ training_state[g] = "IDLE" /\ training_state[g2] = "FORWARD"
        /\ current_stream # ConstructionStream
        /\ LET cfg == [name \in StreamNames |-> DedicatedStream(name)]
               e == C28_Launch(g, TRUE, cfg)
           IN  /\ e.on = ConstructionStream /\ e.on2 = ConstructionStream
               /\ cfg["all_gather_stream"] # ConstructionStream

\* an unshard of a SHARDED group whose training state is POST_BACKWARD
C28_WitnessPostBackward ==
    \E g \in Groups :
        /\ sharded_state[g] = "SHARDED" /\ all_gather_result[g] = <<>>
        /\ training_state[g] = "POST_BACKWARD"

\* the reduce-scatter effects of a log are given reduce_scatter_stream, which
\* is the stream object rs, and the factors f, pre as pre and post as post
C29_ReduceScattersAsStored(lg, rs, f) ==
    \A i \in Positions(lg, "reduce_scatter") :
        /\ lg[i].stream = "reduce_scatter_stream"
        /\ lg[i].on = rs
        /\ lg[i].pre_factor = f.pre
        /\ lg[i].post_factor = f.post

\* from world w0, where group g has a gradient, the reduce-scatter of
\* _post_backward, of the hook's backward and of finalize_backward's
\* fallback is the only one, is given the stored stream and factors, and its
\* event is stored; finalize_backward then waits for it
C29_AsStoredFrom(w0, g) ==
    LET f == _init_grad_divide_factors(w0.mesh_info)
        rs == w0.streams["reduce_scatter_stream"]
        w1 == _post_backward(w0, g)
        w2 == hook_backward(w0, g)
        w3 == finalize_backward(w0, g)
    IN  /\ w0.grad_divide_factors = <<f>>
        /\ f.pre = Float(2) /\ f.post = Float(1)
        /\ C29_ReduceScattersAsStored(w1.log, rs, f)
        /\ w0.hooks[g] > 0 => C29_ReduceScattersAsStored(w2.log, rs, f)
        /\ w0.sharded_state[g] = "UNSHARDED" =>
               /\ Count(w1.log, "reduce_scatter") = 1
               /\ w1.rs_event[g] = <<[kind |-> "reduce_scatter", g |-> g]>>
               /\ w0.hooks[g] > 0 =>
                      /\ Count(w2.log, "reduce_scatter") = 1
                      /\ w2.rs_event[g] =
                             <<[kind |-> "reduce_scatter", g |-> g]>>
        /\ C29_ReduceScattersAsStored(w3.log, rs, f)
        /\ w0.sharded_state[g] = "UNSHARDED" =>
               /\ Count(w3.log, "reduce_scatter") = 1
               /\ \A i \in Positions(w3.log, "reduce_scatter") :
                      \E k \in Positions(w3.log, "wait_event") :
                          /\ i < k /\ w3.log[k].og = g
                          /\ w3.log[k].stream2 = "reduce_scatter"

\* C29: a reduce-scatter launched by post_backward, entered from any
\* training state through the hook, through finalize_backward or directly
\* (one is launched whenever the group is entered UNSHARDED),
\* is given the group's reduce_scatter_stream, the pre-divide factor as its
\* pre-reduction scale and the post-divide factor as its post-reduction
\* scale (here 2 and 1, not 1 and 2), and the event it returns is stored as
\* _reduce_scatter_view_out_event (finalize_backward then waits for that
\* event and clears it): with the streams of construction for a gradient on
\* every non-empty set of parameters, and with every configuration of the
\* streams for a gradient on all parameters.
C29_ReduceScatterArguments ==
    ~raised =>
    \A g \in Groups :
        /\ \A S \in SUBSET Params(g) \ {{}} :
               C29_AsStoredFrom(WithGrads(World, g, S), g)
        /\ \A cfg \in StreamConfigs :
               C29_AsStoredFrom(
                   WithGrads([World EXCEPT !.streams = cfg], g, Params(g)), g)

\* finalize_backward on a group whose forward registered no hook, with a
\* gradient accumulated, while another stream than the default is current
C29_Witness ==
    \E g \in Groups :
        /\ sharded_state[g] = "UNSHARDED" /\ training_state[g] = "PRE_BACKWARD"
        /\ hooks[g] = 0
        /\ \E p \in Params(g) : grad[g][p]
        /\ current_stream # ConstructionStream
        /\ LET w == finalize_backward(World, g) IN
           \E i \in Positions(w.log, "reduce_scatter") :
               /\ w.log[i].on = ConstructionStream
               /\ w.log[i].pre_factor = Float(2) /\ w.log[i].post_factor = Float(1)

\* C30: gradient harvest. post_backward gives the reduce-scatter exactly
\* the parameters whose unsharded gradient was non-null on entry, in group
\* order, each paired at the same index with its own gradient; parameters
\* without a gradient are left out (and with none at all there is no
\* reduce-scatter); after post_backward returns no unsharded view has a
\* gradient
C30_Index(lg) == CHOOSE i \in 1..Len(lg) : lg[i].kind = "reduce_scatter"

C30_Harvested(w0, w, g) ==
    LET with_grad == {p \in Params(g) : w0.grad[g][p]}
        expected == SelectSeq(fsdp_params(g), LAMBDA p : p \in with_grad)
    IN  /\ \A p \in Params(g) : ~w.grad[g][p]
        /\ Count(w.log, "reduce_scatter") = (IF with_grad = {} THEN 0 ELSE 1)
        /\ with_grad # {} =>
               LET e == w.log[C30_Index(w.log)] IN
               /\ e.ps = expected
               /\ Len(e.gs) = Len(e.ps)
               /\ \A i \in 1..Len(e.ps) :
                      /\ e.ps[i] \in with_grad
                      /\ e.gs[i].grad_of = e.ps[i]
                      /\ e.gs[i] = unsharded_grad_data(w0, g, e.ps[i])
               /\ \A p \in Params(g) \ with_grad :
                      \A i \in 1..Len(e.ps) : e.ps[i] # p /\ e.gs[i].grad_of # p

C30_GradientHarvest ==
    \A g \in Groups : \A S \in SUBSET Params(g) :
        (~raised /\ sharded_state[g] = "UNSHARDED") =>
        LET w0 == WithGrads(World, g, S)
        IN  /\ C30_Harvested(w0, _post_backward(w0, g), g)
            /\ hooks[g] > 0 => C30_Harvested(w0, hook_backward(w0, g), g)

\* a group with a gradient on some parameters and none on others, as the
\* backward pass left them, is harvested by the hook
C30_Witness ==
    \E g \in Groups :
        /\ hooks[g] > 0
        /\ \E p \in Params(g) : grad[g][p]
        /\ \E p \in Params(g) : ~grad[g][p]
        /\ LET w == hook_backward(World, g)
           IN  /\ Count(w.log, "reduce_scatter") = 1
               /\ Len(w.log[C30_Index(w.log)].ps) < Len(fsdp_params(g))
               /\ \A p \in Params(g) : ~w.grad[g][p]

\* every parameter of the group has a gradient and all are harvested in
\* group order
C30_WitnessAll ==
    \E g \in Groups :
        /\ \A p \in Params(g) : grad[g][p]
        /\ LET w == _post_backward(World, g)
           IN  /\ Count(w.log, "reduce_scatter") = 1
               /\ w.log[C30_Index(w.log)].ps = fsdp_params(g)

\* what post_backward leaves, in w, of a group g that had no gradient in w0:
\* no reduce-scatter and the event of w0, the training state POST_BACKWARD,
\* the group and its parameters SHARDED, no gradient, and the other group,
\* the holder and the pending all-gather results as they were
C31_Left(w0, w, g) ==
    /\ Count(w.log, "reduce_scatter") = 0
    /\ w.rs_event = w0.rs_event
    /\ w.training_state[g] = "POST_BACKWARD"
    /\ w.sharded_state[g] = "SHARDED"
    /\ \A p \in Params(g) : w.param_state[g][p] = "SHARDED" /\ ~w.grad[g][p]
    /\ w0.sharded_state[g] = "UNSHARDED" =>
           \A p \in Params(g) :
               \E i \in Positions(w.log, "to_sharded") : w.log[i].id = p
    /\ w.raised <=> w0.sharded_state[g] # "UNSHARDED"
    /\ w.all_gather_state = w0.all_gather_state
    /\ w.all_gather_result = w0.all_gather_result
    /\ \A h \in Groups \ {g} :
           /\ w.training_state[h] = w0.training_state[h]
           /\ w.sharded_state[h] = w0.sharded_state[h]
           /\ w.param_state[h] = w0.param_state[h]

\* C31: post_backward on a group none of whose parameters has a gradient
\* launches no reduce-scatter and leaves _reduce_scatter_view_out_event as
\* it was, and still sets the training state to POST_BACKWARD and reshards
\* the group.
C31_PostBackwardNoGrads ==
    \A g \in Groups :
        (~raised /\ \A p \in Params(g) : ~grad[g][p]) =>
            /\ C31_Left(World, _post_backward(World, g), g)
            /\ hooks[g] > 0 => C31_Left(World, hook_backward(World, g), g)

\* an UNSHARDED group without gradients that holds the event of an earlier
\* reduce-scatter: post_backward reshards it and keeps the event
C31_Witness ==
    \E g \in Groups :
        /\ \A p \in Params(g) : ~grad[g][p]
        /\ sharded_state[g] = "UNSHARDED"
        /\ rs_event[g] # <<>>
        /\ training_state[g] # "POST_BACKWARD"
        /\ LET w == _post_backward(World, g)
           IN  /\ w.rs_event[g] = rs_event[g]
               /\ w.sharded_state[g] = "SHARDED"
               /\ w.training_state[g] = "POST_BACKWARD"
               /\ Count(w.log, "reduce_scatter") = 0

\* the effects of a post_backward on group g, entered UNSHARDED from world
\* w0 and leaving world w, come in three blocks: the reads of the gradients
\* (one for each parameter that had one, in group order), then to_sharded
\* on every parameter, then the reduce-scatter if a gradient was read; and
\* after the first to_sharded no effect touches an unsharded parameter
C32_Ordered(w0, w, g) ==
    LET reads == Positions(w.log, "harvest_grad")
        shards == Positions(w.log, "to_sharded")
        launches == Positions(w.log, "reduce_scatter")
        with_grad == {p \in Params(g) : w0.grad[g][p]}
    IN  /\ {w.log[i].id : i \in reads} = with_grad
        /\ Cardinality(reads) = Cardinality(with_grad)
        /\ {w.log[i].id : i \in shards} = Params(g)
        /\ Cardinality(launches) = (IF with_grad = {} THEN 0 ELSE 1)
        /\ \A i \in reads : \A j \in shards : i < j
        /\ \A j \in shards : \A k \in launches : j < k
        /\ \A i \in reads : \A k \in launches : i < k
        /\ \A i \in reads : w0.param_state[g][w.log[i].id] = "UNSHARDED"
        /\ \A j \in shards : \A k \in 1..Len(w.log) :
               k > j => w.log[k].kind \notin
                            {"harvest_grad", "to_unsharded", "init_unsharded_param",
                             "copy_out", "all_gather"}

\* C32: within post_backward all unsharded gradients are read and their
\* grad attributes set to None while the group is still UNSHARDED, then the
\* group is resharded, then the reduce-scatter is launched; no unsharded
\* parameter is accessed after the reshard.
C32_HarvestReshardReduce ==
    ~raised =>
    \A g \in Groups :
        sharded_state[g] = "UNSHARDED" =>
            \A S \in SUBSET Params(g) :
                LET w0 == WithGrads(World, g, S)
                IN  /\ C32_Ordered(w0, _post_backward(w0, g), g)
                    /\ hooks[g] > 0 => C32_Ordered(w0, hook_backward(w0, g), g)
                    /\ C32_Ordered(w0, finalize_backward(w0, g), g)

\* the hook fires on an UNSHARDED group in PRE_BACKWARD of which some
\* parameter has accumulated a gradient: read, reshard, reduce-scatter
C32_Witness ==
    \E g \in Groups :
        /\ sharded_state[g] = "UNSHARDED" /\ training_state[g] = "PRE_BACKWARD"
        /\ hooks[g] > 0
        /\ \E p \in Params(g) : grad[g][p]
        /\ LET w == hook_backward(World, g)
           IN  \E i \in Positions(w.log, "harvest_grad") :
               \E j \in Positions(w.log, "to_sharded") :
               \E k \in Positions(w.log, "reduce_scatter") : i < j /\ j < k

\* a leaf that the hook must be installed on: a tensor that requires gradient
C33_RequiresGrad(o) == o.is_tensor /\ o.requires_grad

\* the leaves of args then kwargs, in the order of the flattening
C33_Leaves(args, kwargs) == tree_leaves(args) \o tree_leaves(kwargs)

\* ret is args and kwargs with exactly the leaves that are tensors requiring
\* gradient replaced, the k-th of them by the k-th output of the hook node,
\* which is that tensor made an output of the node
C33_Rewritten(c, ret) ==
    LET before == C33_Leaves(c.args, c.kwargs)
        after == C33_Leaves(ret.args, ret.kwargs)
    IN  /\ tree_spec(ret.args) = tree_spec(c.args)
        /\ tree_spec(ret.kwargs) = tree_spec(c.kwargs)
        /\ Len(tree_leaves(ret.args)) = Len(tree_leaves(c.args))
        /\ Len(after) = Len(before)
        /\ \A i \in 1..Len(before) :
               IF C33_RequiresGrad(before[i])
               THEN after[i] =
                        [before[i] EXCEPT
                             !.grad_fn = "RegisterPostBackwardHook",
                             !.output_nr =
                                 Cardinality({j \in 1..i : C33_RequiresGrad(before[j])})]
               ELSE after[i] = before[i]

\* C33: _register_post_backward_hook returns args and kwargs with the same
\* tree structure and the same leaves at the same positions, except that
\* exactly the tensor leaves that require gradient are replaced by the
\* outputs of the pass-through op, in the same order; when gradient mode is
\* disabled or no leaf is a tensor that requires gradient, args and kwargs
\* are returned unchanged and no hook is installed.
C33_HookRegistration ==
    hook_call[1].returned # <<>> =>
        LET c == hook_call[1]
            ret == c.returned[1]
            before == C33_Leaves(c.args, c.kwargs)
            none == \A i \in 1..Len(before) : ~C33_RequiresGrad(before[i])
        IN  IF ~c.grad_enabled \/ none
            THEN /\ ret.args = c.args /\ ret.kwargs = c.kwargs
                 /\ c.ctx = <<>>
                 /\ c.pc = "post_forward" => hooks[c.group] = 0
            ELSE /\ C33_Rewritten(c, ret)
                 /\ c.ctx = <<[param_group |-> c.group]>>
                 /\ c.pc = "post_forward" => hooks[c.group] = 1

\* pre_forward has returned for args (x, (b,)) with x not requiring gradient
\* and kwargs {1: a}: b, inside the nested tuple, is the first output of the
\* node and a the second, and x is returned as it was
C33_Witness ==
    /\ hook_call[1].pc = "post_forward"
    /\ hook_call[1].grad_enabled
    /\ hook_call[1].args = TupleOf(<<Leaf(TensorC), TupleOf(<<Leaf(TensorB)>>)>>)
    /\ hook_call[1].kwargs = DictOf(<<Leaf(TensorA)>>)
    /\ LET ret == hook_call[1].returned[1]
       IN  /\ ret.args.children[1] = Leaf(TensorC)
           /\ ret.args.children[2].kind = "tuple"
           /\ ret.args.children[2].children[1].obj.id = "b"
           /\ ret.args.children[2].children[1].obj.output_nr = 1
           /\ ret.kwargs.children[1].obj.id = "a"
           /\ ret.kwargs.children[1].obj.output_nr = 2
           /\ ret.kwargs.keys = <<1>>
    /\ hooks[1] = 1

\* gradient mode is disabled and the arguments hold a tensor that requires
\* gradient: they are returned as they are
C33_WitnessNoGrad ==
    /\ hook_call[1].pc = "post_forward"
    /\ ~hook_call[1].grad_enabled
    /\ hook_call[1].args = TupleOf(<<Leaf(TensorA)>>)
    /\ hook_call[1].returned[1].args = hook_call[1].args
    /\ hooks[1] = 0

\* the tensors the hook op is applied to for the arguments of hook call c
C34_Inputs(c) ==
    LET list == tree_leaves(c.args) \o tree_leaves(c.kwargs)
        idx == InpTensorIndices(list)
    IN  [k \in 1..Len(idx) |-> list[idx[k]]]

\* C34: the hook op is an identity in both directions.  Its forward returns
\* its input tensors unchanged and binds the group; its backward calls
\* post_backward on the bound group once (the world it leaves is the one
\* _post_backward leaves, with the node consumed) and returns None for the
\* group argument followed by the incoming gradients, unchanged and in the
\* same order.
C34_HookIdentity ==
    LET c == hook_call[1]
        inputs == C34_Inputs(c)
        f == RegisterPostBackwardHook_forward(c.group, inputs)
    IN  /\ f.outputs = inputs
        /\ f.ctx.param_group = c.group
        /\ c.ctx # <<>> => c.ctx[1] = f.ctx
        /\ (c.pc = "backward" /\ c.ctx # <<>>) =>
               \A grads \in GradsFor(Len(inputs)) :
                   LET b == RegisterPostBackwardHook_backward(World, c.ctx[1], grads)
                   IN  /\ Count(b.w.log, "post_backward") = 1
                       /\ \A i \in Positions(b.w.log, "post_backward") :
                              b.w.log[i].g = c.group
                       /\ [b.w EXCEPT !.hooks = hooks] = _post_backward(World, c.group)
                       /\ b.w.hooks[c.group] = hooks[c.group] - 1
                       /\ Len(b.grad_inputs) = Len(grads) + 1
                       /\ b.grad_inputs[1] = NoneGrad
                       /\ \A k \in 1..Len(grads) : b.grad_inputs[k + 1] = grads[k]
        /\ c.grad_inputs # <<>> =>
               /\ Len(c.grads) = Len(inputs)
               /\ c.grad_inputs = <<NoneGrad>> \o c.grads

\* the backward of a node with two outputs has run on a group with
\* gradients: it returned None and the two gradients, and post_backward has
\* run (the reduce-scatter event is stored, the node is consumed)
C34_Witness ==
    /\ hook_call[1].pc = "finalize"
    /\ Len(hook_call[1].grads) = 2
    /\ hook_call[1].grads[1] # NoneGrad
    /\ hook_call[1].grads[1] # hook_call[1].grads[2]
    /\ hook_call[1].grad_inputs = <<NoneGrad>> \o hook_call[1].grads
    /\ training_state[1] = "POST_BACKWARD"
    /\ rs_event[1] # <<>>
    /\ hooks[1] = 0


\* what a post_backward that raised leaves, in w, of the world w0 it was
\* entered in: no gradient read and none detached, no reduce-scatter, no
\* reshard, the event, the sharded states, the holder and the pending
\* all-gather results of w0; only the training state was set, before the
\* read that raised
C35_Violation(w0, w, g) ==
    /\ w.raised
    /\ Count(w.log, "harvest_grad") = 0
    /\ Count(w.log, "reduce_scatter") = 0
    /\ Count(w.log, "to_sharded") = 0
    /\ w.grad = w0.grad
    /\ w.rs_event = w0.rs_event
    /\ w.sharded_state = w0.sharded_state
    /\ w.param_state = w0.param_state
    /\ w.all_gather_state = w0.all_gather_state
    /\ w.all_gather_result = w0.all_gather_result
    /\ w.training_state[g] = "POST_BACKWARD"

C35_WitnessSecond ==
    \E g \in Groups :
        /\ hooks[g] > 0
        /\ training_state[g] = "PRE_BACKWARD"
        /\ sharded_state[g] = "UNSHARDED"
        /\ ~raised
        /\ LET w == hook_backward(World, g)
           IN  /\ Count(w.log, "reduce_scatter") = 1
               /\ _post_backward(w, g).raised

\* the exception has escaped a hook of the backward pass
C35_WitnessRaised ==
    \E g \in Groups :
        raised /\ training_state[g] = "POST_BACKWARD" /\ sharded_state[g] = "SHARDED"


\* how many times a handler called the all-gather primitive, and the
\* reduce-scatter primitive, whether the call returned or raised
C36_AllGatherCalls(lg) == Count(lg, "all_gather") + Count(lg, "all_gather_raised")

C36_ReduceScatterCalls(lg) ==
    Count(lg, "reduce_scatter") + Count(lg, "reduce_scatter_raised")

\* the call that took w0 to w ended in the exception of its all-gather:
\* one call of the primitive, nothing assigned, nothing copied out
C36_AllGatherFailed(w0, w, g) ==
    /\ w.raised
    /\ Count(w.log, "all_gather_raised") = 1 /\ Count(w.log, "all_gather") = 0
    /\ w.all_gather_result[g] = <<>>
    /\ w.sharded_state[g] = "SHARDED"
    /\ w.param_state = w0.param_state
    /\ w.all_gather_state = w0.all_gather_state
    /\ w.hooks = w0.hooks
    /\ Count(w.log, "copy_out") = 0 /\ Count(w.log, "holder_pop") = 0

\* the call that took w0 to w ended in the exception of its reduce-scatter:
\* one call of the primitive, the event of w0, the group already resharded
\* and every gradient already detached
C36_ReduceScatterFailed(w0, w, g) ==
    /\ w.raised
    /\ Count(w.log, "reduce_scatter_raised") = 1
    /\ Count(w.log, "reduce_scatter") = 0
    /\ w.rs_event = w0.rs_event
    /\ w.sharded_state[g] = "SHARDED"
    /\ \A p \in Params(g) :
           /\ w.param_state[g][p] = "SHARDED" /\ ~w.grad[g][p]
           /\ \E k \in Positions(w.log, "to_sharded") :
                  /\ w.log[k].id = p
                  /\ \A j \in Positions(w.log, "reduce_scatter_raised") : k < j
    /\ Count(w.log, "harvest_grad") = Cardinality({p \in Params(g) : w0.grad[g][p]})
    /\ Count(w.log, "wait_event") = 0
    /\ w.training_state[g] = "POST_BACKWARD"

\* C36: a collective that fails is not retried and its exception reaches
\* the caller.  Every unshard, pre_forward and pre_backward calls the
\* all-gather primitive at most once, and post_backward (called directly, by
\* the hook or by finalize_backward) the reduce-scatter primitive at most
\* once, whether the primitive fails or not.  A call raises exactly when the
\* primitive it called failed.  After a failed all-gather _all_gather_result
\* is None and the group is SHARDED; after a failed reduce-scatter
\* _reduce_scatter_view_out_event has the value it had, the group is
\* resharded and the gradients are detached.
C36_CollectiveFailure ==
    ~raised =>
    \A g \in Groups : \A fails \in BOOLEAN :
        LET w0 == WorldWhere(fails)
            launches == sharded_state[g] = "SHARDED" /\ all_gather_result[g] = <<>>
        IN  /\ \A w \in {unshard(w0, g, a) : a \in BOOLEAN}
                   \cup {pre_forward(w0, g, a, b) : a \in BOOLEAN, b \in BOOLEAN}
                   \cup {pre_backward(w0, g)} :
                   /\ C36_AllGatherCalls(w.log) = (IF launches THEN 1 ELSE 0)
                   /\ C36_ReduceScatterCalls(w.log) = 0
                   /\ w.raised <=> (fails /\ launches)
                   /\ w.raised => C36_AllGatherFailed(w0, w, g)
            /\ sharded_state[g] = "UNSHARDED" =>
                   \A S \in SUBSET Params(g) :
                       LET w1 == WithGrads(w0, g, S)
                           some == \E p \in Params(g) : w1.grad[g][p]
                       IN  \A w \in {_post_backward(w1, g), finalize_backward(w1, g)}
                                   \cup (IF hooks[g] > 0
                                         THEN {hook_backward(w1, g)} ELSE {}) :
                               /\ C36_ReduceScatterCalls(w.log) = (IF some THEN 1 ELSE 0)
                               /\ C36_AllGatherCalls(w.log) = 0
                               /\ w.raised <=> (fails /\ some)
                               /\ w.raised => C36_ReduceScatterFailed(w1, w, g)

\* an UNSHARDED group that holds the event of an earlier reduce-scatter and
\* a new gradient: the reduce-scatter of its post_backward fails, and the
\* earlier event stays
C36_Witness ==
    \E g \in Groups :
        /\ ~raised
        /\ sharded_state[g] = "UNSHARDED"
        /\ rs_event[g] # <<>>
        /\ \E p \in Params(g) : grad[g][p]
        /\ LET w == _post_backward(WorldWhere(TRUE), g)
           IN  /\ w.raised
               /\ w.rs_event[g] = rs_event[g]
               /\ w.sharded_state[g] = "SHARDED"
               /\ \A p \in Params(g) : ~w.grad[g][p]

\* a SHARDED group without a pending result: the all-gather of its unshard
\* fails
C36_WitnessAllGather ==
    \E g \in Groups :
        /\ ~raised
        /\ sharded_state[g] = "SHARDED" /\ all_gather_result[g] = <<>>
        /\ LET w == unshard(WorldWhere(TRUE), g, TRUE)
           IN  w.raised /\ w.all_gather_result[g] = <<>>

\* the exception of a failed all-gather has ended the program in a forward
C36_WitnessEscaped ==
    \E g \in Groups :
        raised /\ training_state[g] = "FORWARD" /\ sharded_state[g] = "SHARDED"


\* C38: at every operation boundary a group with a pending all-gather
\* result is SHARDED, and so is each of its parameters; and between two
\* consecutive reshards of a group at most one all-gather is launched for
\* it: one has been launched since the last reshard exactly when the group
\* has a pending result or is UNSHARDED, and then no operation launches
\* another before it has resharded the group.
C38_PendingImpliesSharded ==
    \A g \in Groups :
        /\ all_gather_result[g] # <<>> =>
               /\ sharded_state[g] = "SHARDED"
               /\ \A p \in Params(g) : param_state[g][p] = "SHARDED"
        /\ launched[g] <= 1
        /\ launched[g] = 1 <=>
               (all_gather_result[g] # <<>> \/ sharded_state[g] = "UNSHARDED")
        /\ ~raised =>
               \A w \in OpResults(g) \cup {hook_backward(World, g)} :
                   /\ Count(w.log, "all_gather") <= 1
                   /\ w.all_gather_result[g] # <<>> => w.sharded_state[g] = "SHARDED"
                   /\ launched[g] = 1 =>
                          \A k \in Positions(w.log, "all_gather") :
                              w.log[k].og = g =>
                                  \E j \in Positions(w.log, "to_sharded") :
                                      j < k /\ w.log[j].g = g

\* a group that was resharded after an earlier forward (the holder keeps
\* what it published) has a pending result again, the one all-gather since
\* that reshard
C38_Witness ==
    \E g \in Groups :
        /\ all_gather_result[g] # <<>>
        /\ sharded_state[g] = "SHARDED"
        /\ launched[g] = 1
        /\ all_gather_state # <<>> /\ all_gather_state[1].all_gather_result.g = g
        /\ \A a \in BOOLEAN : Count(unshard(World, g, a).log, "all_gather") = 0


\* the calls of a backward pass on group g from world w0, one after the
\* other: pre_backward, post_backward with gradients on S (by the hook when
\* one is registered), finalize_backward
C39_Backward(w0, g, S) ==
    LET w1 == pre_backward(w0, g)
        w2 == IF w1.hooks[g] > 0
              THEN hook_backward(WithGrads(w1, g, S), g)
              ELSE _post_backward(WithGrads(w1, g, S), g)
        w3 == finalize_backward(w2, g)
    IN  <<w1, w2, w3>>

\* C39: wait_for_unshard in a training state other than FORWARD, with or
\* without a pending result, neither pops the holder nor puts into it; the
\* entry a forward wait_for_unshard published stays in the holder through
\* pre_backward, post_backward and finalize_backward of either group, and
\* the operation that takes it out is a wait_for_unshard in FORWARD with a
\* pending result (called directly or by pre_forward).
C39_HolderOutsideForward ==
    ~raised =>
    \A g \in Groups :
        /\ training_state[g] # "FORWARD" =>
               LET w == wait_for_unshard(World, g) IN
               /\ Count(w.log, "holder_pop") = 0
               /\ Count(w.log, "holder_put") = 0
               /\ w.all_gather_state = all_gather_state
               /\ all_gather_result[g] # <<>> =>
                      /\ w.sharded_state[g] = "UNSHARDED"
                      /\ Count(w.log, "copy_out") = 1
                      \* the result is freed, not kept in the holder
                      /\ \E k \in Positions(w.log, "release") :
                             w.log[k].og = all_gather_result[g][1].g
        /\ \A S \in SUBSET Params(g) :
               LET ws == C39_Backward(World, g, S) IN
               \A n \in 1..3 :
                   /\ ws[n].all_gather_state = all_gather_state
                   /\ Count(ws[n].log, "holder_pop") = 0
                   /\ Count(ws[n].log, "holder_put") = 0
        /\ \A w \in OpResults(g) \cup {hook_backward(World, g)} :
               Count(w.log, "holder_pop") > 0 =>
                   /\ w.training_state[g] = "FORWARD"
                   /\ Count(w.log, "copy_out") = 1
                   /\ w \in {wait_for_unshard(World, g)}
                          \cup {pre_forward(World, g, a, b) :
                                    a \in BOOLEAN, b \in BOOLEAN}

\* the holder keeps what the forward of a group published; the group, IDLE
\* again and with a result pending from an explicit unshard, waits for it
\* without touching the holder
C39_Witness ==
    \E g \in Groups :
        /\ ~raised
        /\ training_state[g] = "IDLE"
        /\ all_gather_result[g] # <<>>
        /\ all_gather_state # <<>>
        /\ LET w == wait_for_unshard(World, g)
           IN  /\ w.all_gather_state = all_gather_state
               /\ w.sharded_state[g] = "UNSHARDED"
               /\ Count(w.log, "holder_pop") = 0

\* the holder keeps what a forward published and the group is SHARDED
\* before its backward: pre_backward unshards it through wait_for_unshard
\* and the whole backward leaves the holder as it is
C39_WitnessBackward ==
    \E g \in Groups :
        /\ ~raised
        /\ training_state[g] = "IDLE" /\ sharded_state[g] = "SHARDED"
        /\ all_gather_state # <<>> /\ all_gather_state[1].all_gather_result.g = g
        /\ LET ws == C39_Backward(World, g, Params(g))
           IN  /\ Count(ws[1].log, "copy_out") = 1
               /\ Count(ws[2].log, "reduce_scatter") = 1
               /\ ws[3].all_gather_state = all_gather_state


\* the all-gather output buffers that a world refers to: the pending
\* results of the groups and the entries of the holder
C37_Referenced(w) ==
    Cardinality({g \in Groups : w.all_gather_result[g] # <<>>})
        + Len(w.all_gather_state)

RECURSIVE C37_AliveFrom(_, _, _)
\* the numbers of all-gather buffers alive after each effect of lg from
\* position i on, when n are alive before it: an all-gather allocates one,
\* a release frees one
C37_AliveFrom(n, lg, i) ==
    IF i > Len(lg) THEN <<>>
    ELSE LET m == IF lg[i].kind = "all_gather" THEN n + 1
                  ELSE IF lg[i].kind = "release" THEN n - 1
                  ELSE n
         IN  <<m>> \o C37_AliveFrom(m, lg, i + 1)

\* the forward of module g and then of module h, by implicit prefetch alone
C37_Forward(w0, g, h, grad_enabled, requires_grad) ==
    post_forward(
        pre_forward(post_forward(pre_forward(w0, g, grad_enabled, requires_grad), g),
                    h, grad_enabled, requires_grad), h)

\* C37: in a forward that uses implicit prefetch alone (no result is
\* pending between the calls; the groups run pre_forward and post_forward
\* one after the other on the holder they share) at most two all-gather
\* buffers are alive at any point of any call: the one just gathered for
\* the current group and the one of the previous group that the holder
\* keeps until the current group's wait_for_unshard frees it.  After each
\* forward one buffer is alive, the holder's, and nothing is pending.
C37_ImplicitPrefetchBuffers ==
    (~raised /\ \A g \in Groups : all_gather_result[g] = <<>>) =>
        \A g \in Groups, h \in Groups :
        \A grad_enabled \in BOOLEAN, requires_grad \in BOOLEAN :
            LET w == C37_Forward(World, g, h, grad_enabled, requires_grad)
                alive == C37_AliveFrom(C37_Referenced(World), w.log, 1)
            IN  /\ ~w.raised
                /\ \A k \in 1..Len(alive) : alive[k] <= 2
                /\ \A k \in 1..Len(alive) :
                       alive[k] = 2 =>
                           \* the second buffer is the one the holder had
                           \* when the all-gather was launched, not yet freed
                           \E j \in 1..k :
                               /\ w.log[j].kind = "all_gather"
                               /\ \A x \in j..k : w.log[x].kind # "release"
                /\ \A gg \in Groups : w.all_gather_result[gg] = <<>>
                /\ C37_Referenced(w) <= 1
                /\ Len(alive) > 0 => alive[Len(alive)] = C37_Referenced(w)

\* the holder keeps the buffer of the module that ran its forward last;
\* the next module, SHARDED, gathers its own before that one is freed: two
\* buffers are alive
C37_Witness ==
    \E g \in Groups, h \in Groups :
        /\ g # h
        /\ ~raised
        /\ \A gg \in Groups : all_gather_result[gg] = <<>>
        /\ all_gather_state # <<>> /\ all_gather_state[1].all_gather_result.g = g
        /\ sharded_state[h] = "SHARDED"
        /\ LET w == pre_forward(World, h, TRUE, TRUE)
               alive == C37_AliveFrom(C37_Referenced(World), w.log, 1)
           IN  /\ \E k \in 1..Len(alive) : alive[k] = 2
               /\ alive[Len(alive)] = 1
               /\ w.all_gather_state[1].all_gather_result.g = h

\* with explicit unshards three buffers are referenced at once: the pending
\* results of both groups and the holder's
C37_WitnessExplicit ==
    /\ \A g \in Groups : all_gather_result[g] # <<>>
    /\ all_gather_state # <<>>

====
